---------------------------- MODULE Spec2Model ----------------------------
(***************************************************************************)
(* A model of the material property codec (MaterialAsset.cpp), the shader  *)
(* symbol-conflict scanner and rewrite (CustomPipelineAction.cpp) and the  *)
(* portable mesh codec (MeshAsset.cpp) of the graphics mod asset pipeline. *)
(*                                                                         *)
(* Three specifications share the variables below; each leaves the other   *)
(* subsystems' variables at their initial value:                           *)
(*   SpecMaterial  ToJson / FromJson / GetMemorySize / WriteAsShaderCode / *)
(*                 WriteToMemory over MaterialData                         *)
(*   SpecShader    GlobalConflicts and the two-phase rewrite               *)
(*   SpecMesh      ToDolphinMesh / FromDolphinMesh                         *)
(***************************************************************************)
EXTENDS Integers, Sequences, FiniteSets, TLC

VARIABLES
  mat_pc,       \* position of the material pipeline
  mat_src,      \* the MaterialData handed to ToJson, or NoData
  mat_json,     \* the picojson object handed to FromJson
  mat_pre,      \* *data as it was before FromJson was called
  mat_data,     \* *data, the output MaterialData of FromJson
  mat_ok,       \* FromJson's return value: "unset", "true", "false"
  mat_size,     \* m_material_data.size()
  mat_code,     \* m_last_generated_material_code, a sequence of lines
  mat_buf,      \* the bytes written into m_material_data
  mat_idx,      \* index of the next property of the write loop
  mat_last,     \* the last WriteToMemory call: property, cursor before/after
  sh_pc,        \* position of the shader rewrite
  sh_items,     \* the program the shader source was written from
  sh_source,    \* shader_data->m_shader_source, a sequence of characters
  sh_names,     \* m_texture_code_names
  sh_conflicts, \* global_conflicts, a sequence of identifiers
  sh_renamed,   \* color_shader_data after the two renaming loops
  sh_code,      \* the buffer of m_last_generated_shader_code
  mesh_pc,      \* position of the mesh codec
  mesh_src,     \* the MeshData handed to ToDolphinMesh
  mesh_bytes,   \* the bytes written to the file
  mesh_json,    \* the object written by MeshData::ToJson
  mesh_out,     \* *data, the output MeshData of FromDolphinMesh
  pl_self,      \* the CustomPipelineAction: m_valid and its one pass
  pl_config,    \* m_passes_config[0].m_pixel_material_asset
  pl_materials, \* the material assets of the loader, by asset id
  pl_shaders,   \* the pixel shader assets of the loader, by asset id
  pl_clock,     \* the time of the latest load
  pl_out,       \* what the last OnDrawStarted wrote through draw_started
  pl_last,      \* the last call: which, how it ended, what it did
  pl_rejected,  \* whether the last completed OnTextureCreate set m_valid false
  ld_kind,      \* which asset loads: "material" or "mesh"
  ld_pc,        \* position of the loader thread in LoadImpl
  ld_heap,      \* the data objects allocated so far, by address
  ld_temp,      \* potential_data: an address, 0 for null
  ld_target,    \* what the library is writing into *potential_data
  ld_bytes,     \* loaded_info.m_bytes_loaded
  ld_loaded,    \* m_loaded
  ld_data,      \* m_data: an address, 0 for null
  ld_lock,      \* the holder of m_data_lock: "free", "loader", "reader"
  ld_before,    \* m_loaded, m_data and *m_data as LoadImpl was entered
  ld_published, \* the snapshots the asset has held between critical sections
  ld_loads,     \* LoadImpl calls so far
  rd_pc,        \* position of the reader
  rd_seen,      \* what the reader has read under the lock
  cm_self,      \* the CustomMeshAction
  cm_meshes,    \* the mesh assets of the loader, by asset id
  cm_clock,     \* the time of the latest mesh load
  cm_out,       \* what the last OnDrawStarted wrote through draw_started
  cm_last,      \* the last call on the mesh action
  gl_pc,        \* position of the glTF import
  gl_model,     \* the tinygltf::Model handed to ReadGLTF
  gl_out,       \* *data, the MeshData the importer fills
  gl_ok,        \* the return value of MeshData::FromGLTF: "unset", "true", "false"
  gl_origin,    \* for each chunk of *data, the node whose mesh it was read from
  mc_pc,        \* position of the material editor
  mc_shader,    \* shader->m_properties handed to DrawControl
  mc_material,  \* *material, the MaterialData the editor works on
  mc_ui,        \* what the user did in the frame DrawControl drew
  sc_pc,        \* position of the scan of one source
  sc_source,    \* the source handed to GlobalConflicts
  sc_before,    \* the byte that lies before the buffer of the source
  sc_result     \* what GlobalConflicts returned and the indices it read outside

matVars  == <<mat_pc, mat_src, mat_json, mat_pre, mat_data, mat_ok, mat_size,
              mat_code, mat_buf, mat_idx, mat_last>>
shVars   == <<sh_pc, sh_items, sh_source, sh_names, sh_conflicts, sh_renamed, sh_code>>
meshVars == <<mesh_pc, mesh_src, mesh_bytes, mesh_json, mesh_out>>
plVars   == <<pl_self, pl_config, pl_materials, pl_shaders, pl_clock, pl_out, pl_last,
              pl_rejected>>
ldVars   == <<ld_kind, ld_pc, ld_heap, ld_temp, ld_target, ld_bytes, ld_loaded,
              ld_data, ld_lock, ld_before, ld_published, ld_loads, rd_pc, rd_seen>>
cmVars   == <<cm_self, cm_meshes, cm_clock, cm_out, cm_last>>
glVars   == <<gl_pc, gl_model, gl_out, gl_ok, gl_origin>>
mcVars   == <<mc_pc, mc_shader, mc_material, mc_ui>>
scVars   == <<sc_pc, sc_source, sc_before, sc_result>>
toolVars == <<mcVars, scVars>>
restVars == <<plVars, ldVars, cmVars, glVars, toolVars>>
vars     == <<matVars, shVars, meshVars, restVars>>

---------------------------------------------------------------------------
(* Bounds of the model.                                                    *)

\* Longest property list of a MaterialData under test.
MaxProps == 2
\* Longest `values` array of a hand-written material file.
MaxEntries == 2
\* Fraction bits kept by the model's float (a double keeps twice as many).
FracBits == 1

---------------------------------------------------------------------------
(* Generic helpers.                                                        *)

RECURSIVE Pow2(_)
Pow2(n) == IF n = 0 THEN 1 ELSE 2 * Pow2(n - 1)

Range(s) == {s[i] : i \in DOMAIN s}

RECURSIVE SumSeq(_)
SumSeq(s) == IF s = <<>> THEN 0 ELSE Head(s) + SumSeq(Tail(s))

RECURSIVE Flatten(_)
Flatten(ss) == IF ss = <<>> THEN <<>> ELSE Head(ss) \o Flatten(Tail(ss))

SeqsUpTo(S, n) == UNION {[1..k -> S] : k \in 0..n}

---------------------------------------------------------------------------
(* Numbers.  An s32 is an integer.  A float is an integer count of         *)
(* 1/FloatDen, a double (a JSON number) an integer count of 1/DoubleDen.   *)

FloatDen  == Pow2(FracBits)
DoubleDen == Pow2(2 * FracBits)

\* static_cast<double>(s32)
S32ToDouble(v) == v * DoubleDen
\* static_cast<s32>(double): truncation toward zero
DoubleToS32(d) == IF d >= 0 THEN d \div DoubleDen ELSE -((-d) \div DoubleDen)
\* static_cast<double>(float): exact
FloatToDouble(f) == f * (DoubleDen \div FloatDen)
\* static_cast<float>(double): the nearest float, ties to the even one
DoubleToFloat(d) ==
  LET step == DoubleDen \div FloatDen
      lo   == d \div step
      rem  == d - lo * step
  IN  IF 2 * rem < step THEN lo
      ELSE IF 2 * rem > step THEN lo + 1
      ELSE IF lo % 2 = 0 THEN lo ELSE lo + 1

---------------------------------------------------------------------------
(* picojson values: a kind and a payload.                                  *)

JNull    == [k |-> "null", v |-> 0]
JBool(b) == [k |-> "boolean", v |-> b]
JNum(d)  == [k |-> "number", v |-> d]
JStr(s)  == [k |-> "string", v |-> s]
JArr(a)  == [k |-> "array", v |-> a]
JObj(o)  == [k |-> "object", v |-> o]
\* json_value.is<T>()
Is(j, kind) == j.k = kind
\* an object with no key
EmptyObj == [x \in {} |-> JNull]
\* obj[key] = value
Put(o, key, value) == (key :> value) @@ o

---------------------------------------------------------------------------
(* MaterialProperty::Type, MaterialProperty::Value, MaterialData.          *)

NumericTypes == {"Int", "Int2", "Int3", "Int4",
                 "Float", "Float2", "Float3", "Float4", "Bool"}
PropertyTypes == {"TextureAsset"} \cup NumericTypes

\* std::optional<Value>: std::nullopt, or one alternative of the variant
NullOpt      == [k |-> "nullopt", v |-> 0]
VAssetID(s)  == [k |-> "AssetID", v |-> s]
VS32(x)      == [k |-> "s32", v |-> x]
VS32Arr(a)   == [k |-> "s32x" \o ToString(Len(a)), v |-> a]
VFloat(x)    == [k |-> "float", v |-> x]
VFloatArr(a) == [k |-> "floatx" \o ToString(Len(a)), v |-> a]
VBool(b)     == [k |-> "bool", v |-> b]
HasValue(p)  == p.m_value.k # "nullopt"

\* the variant alternative that std::get_if asks for under each type
KindOfType(t) ==
  CASE t = "TextureAsset" -> "AssetID"
    [] t = "Int"    -> "s32"
    [] t = "Int2"   -> "s32x2"
    [] t = "Int3"   -> "s32x3"
    [] t = "Int4"   -> "s32x4"
    [] t = "Float"  -> "float"
    [] t = "Float2" -> "floatx2"
    [] t = "Float3" -> "floatx3"
    [] t = "Float4" -> "floatx4"
    [] t = "Bool"   -> "bool"
    [] OTHER        -> "none"

MaterialProperty(name, t, val) ==
  [m_code_name |-> name, m_type |-> t, m_value |-> val]
MaterialData(props, shader) == [properties |-> props, shader_asset |-> shader]
\* a default-constructed MaterialData
DefaultData == MaterialData(<<>>, "")
NoData == [properties |-> <<>>, shader_asset |-> "<none>"]

---------------------------------------------------------------------------
(* Parsing: ParseNumeric, ParsePropertyValue, ParseMaterialProperties and  *)
(* MaterialData::FromJson.  A parse result is [ok, value]; on failure the  *)
(* value is what the out-parameter holds when the function returns.        *)

\* static_cast<ElementType>(json.get<double>())
CastElement(elementType, d) ==
  IF elementType = "s32" THEN DoubleToS32(d) ELSE DoubleToFloat(d)

\* ParseNumeric<ElementType, ElementCount>
ParseNumeric(elementType, elementCount, json_value) ==
  IF elementCount = 1
    THEN IF ~Is(json_value, "number")
           THEN [ok |-> FALSE, value |-> NullOpt]
           ELSE [ok |-> TRUE,
                 value |-> [k |-> elementType,
                            v |-> CastElement(elementType, json_value.v)]]
    ELSE IF ~Is(json_value, "array")
           THEN [ok |-> FALSE, value |-> NullOpt]
         ELSE IF Len(json_value.v) # elementCount
           THEN [ok |-> FALSE, value |-> NullOpt]
         ELSE IF \E i \in DOMAIN json_value.v : ~Is(json_value.v[i], "number")
           THEN [ok |-> FALSE, value |-> NullOpt]
         ELSE [ok |-> TRUE,
               value |-> [k |-> elementType \o "x" \o ToString(elementCount),
                          v |-> [i \in 1..elementCount |->
                                   CastElement(elementType, json_value.v[i].v)]]]

\* ParsePropertyValue.  The Type_TextureAsset case has no break after its
\* if: a value that is not a string falls through into the Type_Int case.
\* The Type_Bool case breaks, and ends in the error return.
ParsePropertyValue(type, json_value) ==
  CASE type = "TextureAsset" ->
         IF Is(json_value, "string")
           THEN [ok |-> TRUE, value |-> VAssetID(json_value.v)]
           ELSE ParseNumeric("s32", 1, json_value)
    [] type = "Int"    -> ParseNumeric("s32", 1, json_value)
    [] type = "Int2"   -> ParseNumeric("s32", 2, json_value)
    [] type = "Int3"   -> ParseNumeric("s32", 3, json_value)
    [] type = "Int4"   -> ParseNumeric("s32", 4, json_value)
    [] type = "Float"  -> ParseNumeric("float", 1, json_value)
    [] type = "Float2" -> ParseNumeric("float", 2, json_value)
    [] type = "Float3" -> ParseNumeric("float", 3, json_value)
    [] type = "Float4" -> ParseNumeric("float", 4, json_value)
    [] type = "Bool" ->
         IF Is(json_value, "boolean")
           THEN [ok |-> TRUE, value |-> VBool(json_value.v)]
           ELSE [ok |-> FALSE, value |-> NullOpt]
    [] OTHER -> [ok |-> FALSE, value |-> NullOpt]

\* Common::ToLower on the type strings a file of the model can hold
ToLower(s) ==
  CASE s = "INT" -> "int"
    [] s = "Float2" -> "float2"
    [] s = "Texture_Asset" -> "texture_asset"
    [] OTHER -> s

\* the `pairs` table of ParseMaterialProperties: type name -> Type
TypeNames == {"texture_asset", "int", "int2", "int3", "int4",
              "float", "float2", "float3", "float4", "bool"}
TypeOfName(name) ==
  CASE name = "texture_asset" -> "TextureAsset"
    [] name = "int"    -> "Int"
    [] name = "int2"   -> "Int2"
    [] name = "int3"   -> "Int3"
    [] name = "int4"   -> "Int4"
    [] name = "float"  -> "Float"
    [] name = "float2" -> "Float2"
    [] name = "float3" -> "Float3"
    [] name = "float4" -> "Float4"
    [] name = "bool"   -> "Bool"

\* one iteration of the loop of ParseMaterialProperties: [ok, property]
ParseEntry(value_data) ==
  LET fail == [ok |-> FALSE, property |-> MaterialProperty("", "Undefined", NullOpt)]
  IN
  IF ~Is(value_data, "object") THEN fail
  ELSE LET obj == value_data.v IN
    IF "type" \notin DOMAIN obj THEN fail
    ELSE IF ~Is(obj["type"], "string") THEN fail
    ELSE IF ToLower(obj["type"].v) \notin TypeNames THEN fail
    ELSE IF "code_name" \notin DOMAIN obj THEN fail
    ELSE IF ~Is(obj["code_name"], "string") THEN fail
    ELSE LET type == TypeOfName(ToLower(obj["type"].v))
             name == obj["code_name"].v
         IN IF "value" \in DOMAIN obj
              THEN LET r == ParsePropertyValue(type, obj["value"])
                   IN  [ok |-> r.ok,
                        property |-> MaterialProperty(name, type, r.value)]
              ELSE [ok |-> TRUE,
                    property |-> MaterialProperty(name, type, NullOpt)]

\* ParseMaterialProperties: every entry parsed before a bad one has already
\* been pushed onto *material_property when the function returns false.
RECURSIVE ParseMaterialProperties(_, _)
ParseMaterialProperties(values_data, material_property) ==
  IF values_data = <<>>
    THEN [ok |-> TRUE, props |-> material_property]
    ELSE LET r == ParseEntry(Head(values_data))
         IN  IF ~r.ok
               THEN [ok |-> FALSE, props |-> material_property]
               ELSE ParseMaterialProperties(Tail(values_data),
                                            Append(material_property, r.property))

\* MaterialData::FromJson: [ok, data], data being *data at return
FromJson(json, data) ==
  IF "values" \notin DOMAIN json THEN [ok |-> FALSE, data |-> data]
  ELSE IF ~Is(json["values"], "array") THEN [ok |-> FALSE, data |-> data]
  ELSE LET r == ParseMaterialProperties(json["values"].v, data.properties)
           d == [data EXCEPT !.properties = r.props]
       IN  IF ~r.ok THEN [ok |-> FALSE, data |-> d]
           ELSE IF "shader_asset" \notin DOMAIN json THEN [ok |-> FALSE, data |-> d]
           ELSE IF ~Is(json["shader_asset"], "string") THEN [ok |-> FALSE, data |-> d]
           ELSE [ok |-> TRUE,
                 data |-> [d EXCEPT !.shader_asset = json["shader_asset"].v]]

---------------------------------------------------------------------------
(* Serialising: ArrayToPicoArray and MaterialData::ToJson.                 *)

\* static_cast<double>(value[i]) of either element type
ElementToDouble(kind, x) ==
  IF kind \in {"s32", "s32x2", "s32x3", "s32x4"}
    THEN S32ToDouble(x) ELSE FloatToDouble(x)

ArrayToPicoArray(kind, value) ==
  [i \in DOMAIN value |-> JNum(ElementToDouble(kind, value[i]))]

\* the canonical type name ToJson's switch writes; none for Type_Undefined
NameOfType(t) ==
  CASE t = "TextureAsset" -> "texture_asset"
    [] t = "Int"    -> "int"
    [] t = "Int2"   -> "int2"
    [] t = "Int3"   -> "int3"
    [] t = "Int4"   -> "int4"
    [] t = "Float"  -> "float"
    [] t = "Float2" -> "float2"
    [] t = "Float3" -> "float3"
    [] t = "Float4" -> "float4"
    [] t = "Bool"   -> "bool"
    [] OTHER        -> ""

\* the std::visit of ToJson: the JSON value of a present variant
ValueToJson(val) ==
  CASE val.k = "AssetID" -> JStr(val.v)
    [] val.k \in {"s32", "float"} -> JNum(ElementToDouble(val.k, val.v))
    [] val.k = "bool" -> JBool(val.v)
    [] OTHER -> JArr(ArrayToPicoArray(val.k, val.v))

\* a mutant: the value of a property is not written
PropertyToJsonNoValue(property) ==
  LET named == Put(EmptyObj, "code_name", JStr(property.m_code_name))
  IN  JObj(IF NameOfType(property.m_type) = "" THEN named
           ELSE Put(named, "type", JStr(NameOfType(property.m_type))))

\* the body of ToJson's loop: the json_property of one property
PropertyToJson(property) ==
  LET named == Put(EmptyObj, "code_name", JStr(property.m_code_name))
      typed == IF NameOfType(property.m_type) = "" THEN named
               ELSE Put(named, "type", JStr(NameOfType(property.m_type)))
  IN  JObj(IF HasValue(property)
             THEN Put(typed, "value", ValueToJson(property.m_value))
             ELSE typed)

\* MaterialData::ToJson
ToJson(data) ==
  Put(Put(EmptyObj, "values",
          JArr([i \in DOMAIN data.properties |-> PropertyToJson(data.properties[i])])),
      "shader_asset", JStr(data.shader_asset))

---------------------------------------------------------------------------
(* The uniform buffer: WriteToMemory, GetMemorySize, WriteAsShaderCode.    *)

\* constexpr std::size_t MemorySize = sizeof(float) * 4
MemorySize == 16
\* sizeof(s32), sizeof(float), sizeof(bool)
SizeofS32 == 4
SizeofFloat == 4
SizeofBool == 1

\* the object representation of an s32: two's complement, little endian
S32Bytes(x) ==
  <<x % 256, (x \div 256) % 256, (x \div 65536) % 256, (x \div 16777216) % 256>>

\* floor(log2(n)) for n >= 1
RECURSIVE Log2(_)
Log2(n) == IF n <= 1 THEN 0 ELSE 1 + Log2(n \div 2)

\* the object representation of a float (IEEE 754 binary32), little endian
F32Bytes(f) ==
  IF f = 0 THEN <<0, 0, 0, 0>>
  ELSE LET sign == IF f < 0 THEN 1 ELSE 0
           n    == IF f < 0 THEN -f ELSE f
           top  == Log2(n)
           exp  == top - FracBits + 127
           mant == (n - Pow2(top)) * Pow2(23 - top)
       IN  <<mant % 256, (mant \div 256) % 256,
             (exp % 2) * 128 + (mant \div 65536), sign * 128 + (exp \div 2)>>

BoolBytes(b) == <<IF b THEN 1 ELSE 0>>

Zeros(n) == [i \in 1..n |-> 0]

\* the raw bytes memcpy reads from a variant alternative
RawBytes(val) ==
  CASE val.k = "s32"   -> S32Bytes(val.v)
    [] val.k = "float" -> F32Bytes(val.v)
    [] val.k = "bool"  -> BoolBytes(val.v)
    [] val.k \in {"s32x2", "s32x3", "s32x4"} ->
         Flatten([i \in DOMAIN val.v |-> S32Bytes(val.v[i])])
    [] val.k \in {"floatx2", "floatx3", "floatx4"} ->
         Flatten([i \in DOMAIN val.v |-> F32Bytes(val.v[i])])
    [] OTHER -> <<>>

\* a mutant: the cursor advances by DataSize, the padding is not written
WriteToMemoryUnpadded(property) ==
  IF ~HasValue(property) THEN <<>>
  ELSE IF property.m_type \in NumericTypes
          /\ property.m_value.k = KindOfType(property.m_type)
    THEN RawBytes(property.m_value)
  ELSE <<>>

\* MaterialProperty::WriteToMemory: the bytes written at the cursor; the
\* cursor advances by their number.  The switch has no case for
\* Type_TextureAsset, and each case writes only if std::get_if finds the
\* alternative of its type.
WriteToMemory(property) ==
  IF ~HasValue(property) THEN <<>>
  ELSE IF property.m_type \in NumericTypes
          /\ property.m_value.k = KindOfType(property.m_type)
    THEN LET raw == RawBytes(property.m_value)
         IN  raw \o Zeros(MemorySize - Len(raw))
  ELSE <<>>

\* MaterialProperty::GetMemorySize
GetMemorySize(property) ==
  IF ~HasValue(property) THEN 0
  ELSE IF property.m_type \in NumericTypes THEN MemorySize
  ELSE 0

\* the `pairs` table of WriteAsShaderCode: Type -> (type name, element count)
ShaderTypeName(t) ==
  CASE t \in {"Int", "Int2", "Int3", "Int4"} -> "int"
    [] t \in {"Float", "Float2", "Float3", "Float4"} -> "float"
    [] t = "Bool" -> "bool"
    [] OTHER -> ""
ElementCount(t) ==
  CASE t \in {"Int", "Float", "Bool"} -> 1
    [] t \in {"Int2", "Float2"} -> 2
    [] t \in {"Int3", "Float3"} -> 3
    [] t \in {"Int4", "Float4"} -> 4
    [] OTHER -> 0

\* one shader_source.Write call: "{} {};\n" when n = 1, "{}{} {};\n" else
Decl(type_name, n, name) == [type_name |-> type_name, n |-> n, name |-> name]
Format(w) ==
  IF w.n = 1 THEN w.type_name \o " " \o w.name \o ";\n"
  ELSE w.type_name \o ToString(w.n) \o " " \o w.name \o ";\n"

\* a mutant: the padding loop starts one element late
WriteAsShaderCodeShortPadding(property) ==
  IF property.m_type \notin NumericTypes THEN <<>>
  ELSE LET n == ElementCount(property.m_type)
           t == ShaderTypeName(property.m_type)
       IN  <<Decl(t, n, property.m_code_name)>> \o
           [j \in 1..(3 - n) |->
              Decl(t, 1, property.m_code_name \o "_padding_" \o ToString(n + j + 1))]

\* MaterialProperty::WriteAsShaderCode: the Write calls it makes, in order.
\* It does not look at m_value.
WriteAsShaderCode(property) ==
  IF property.m_type = "TextureAsset" THEN <<>>
  ELSE IF property.m_type \notin NumericTypes THEN <<>>
  ELSE LET n == ElementCount(property.m_type)
           t == ShaderTypeName(property.m_type)
       IN  <<Decl(t, n, property.m_code_name)>> \o
           [j \in 1..(4 - n) |->
              Decl(t, 1, property.m_code_name \o "_padding_" \o ToString(n + j))]

\* the scalars a sequence of declarations declares
DeclaredScalars(ws) == SumSeq([i \in DOMAIN ws |-> ws[i].n])

---------------------------------------------------------------------------
(* The inputs of the material pipeline.                                    *)

CodeNames == {"count", "tint"}

\* the values of the matching kind a property of each type is tried with
\* (floats in units of 1/FloatDen)
ValuesOf(t) ==
  CASE t = "TextureAsset" -> {VAssetID("tex1")}
    [] t = "Int"    -> {VS32(7), VS32(-3)}
    [] t = "Int2"   -> {VS32Arr(<<1, -2>>)}
    [] t = "Int3"   -> {VS32Arr(<<1, 2, 3>>)}
    [] t = "Int4"   -> {VS32Arr(<<4, 3, 2, 1>>)}
    [] t = "Float"  -> {VFloat(3), VFloat(-1)}
    [] t = "Float2" -> {VFloatArr(<<1, 2>>)}
    [] t = "Float3" -> {VFloatArr(<<1, 0, -3>>)}
    [] t = "Float4" -> {VFloatArr(<<2, 2, 1, 5>>)}
    [] t = "Bool"   -> {VBool(TRUE)}

\* a valid property: one of the ten types, no value or one of its kind
ValidProperties ==
  {MaterialProperty(n, t, val) :
     n \in CodeNames, t \in PropertyTypes, val \in {NullOpt}} \cup
  UNION {{MaterialProperty(n, t, val) : n \in CodeNames, val \in ValuesOf(t)} :
           t \in PropertyTypes}

ValidMaterialData ==
  {MaterialData(props, "shader1") : props \in SeqsUpTo(ValidProperties, MaxProps)}

\* the `value` members a hand-written entry is tried with
ValueShapes ==
  {JStr("tex1"), JNum(S32ToDouble(7)), JNum(FloatToDouble(3)), JBool(TRUE), JNull,
   JArr(<<JNum(S32ToDouble(1))>>),
   JArr(<<JNum(S32ToDouble(1)), JNum(S32ToDouble(2))>>),
   JArr(<<JNum(S32ToDouble(1)), JStr("x")>>),
   JArr(<<JNum(S32ToDouble(1)), JNum(S32ToDouble(2)), JNum(S32ToDouble(3))>>),
   JArr(<<JNum(S32ToDouble(1)), JNum(S32ToDouble(2)), JNum(S32ToDouble(3)),
          JNum(S32ToDouble(4))>>),
   JArr(<<JNum(S32ToDouble(1)), JNum(S32ToDouble(2)), JNum(S32ToDouble(3)),
          JNum(S32ToDouble(4)), JNum(S32ToDouble(5))>>)}

Entry(type, name) == Put(Put(EmptyObj, "type", JStr(type)), "code_name", JStr(name))

\* the entries of `values` a hand-written file is probed with
ProbeEntries ==
  {JObj(Entry(t, "count")) : t \in TypeNames \cup {"INT", "vec2"}} \cup
  {JObj(Put(Entry(t, "count"), "value", val)) :
     t \in TypeNames \cup {"INT"}, val \in ValueShapes} \cup
  {JNum(S32ToDouble(1)),
   JObj(Put(EmptyObj, "code_name", JStr("count"))),
   JObj(Put(Put(EmptyObj, "type", JNum(S32ToDouble(1))), "code_name", JStr("count"))),
   JObj(Put(EmptyObj, "type", JStr("int"))),
   JObj(Put(Put(EmptyObj, "type", JStr("int")), "code_name", JBool(TRUE)))}

\* well-formed entries placed around the probed one
GoodEntries ==
  {JObj(Put(Entry("int", "tint"), "value", JNum(S32ToDouble(7)))),
   JObj(Entry("float4", "tint"))}

\* `values` arrays: one probed entry at any position among good ones
ProbedArrays ==
  {<<>>} \cup
  UNION {{before \o <<probe>> \o after :
            probe \in ProbeEntries,
            before \in [1..nb -> GoodEntries],
            after \in UNION {[1..na -> GoodEntries] : na \in 0..(MaxEntries - 1 - nb)}} :
         nb \in 0..(MaxEntries - 1)}

\* the files: `values` and `shader_asset` present, missing or ill-typed
AuthoredJson ==
  {Put(Put(EmptyObj, "values", JArr(a)), "shader_asset", JStr("shader1")) :
     a \in ProbedArrays} \cup
  {Put(EmptyObj, "values", JArr(a)) : a \in ProbedArrays} \cup
  {Put(Put(EmptyObj, "values", JArr(a)), "shader_asset", JNum(S32ToDouble(1))) :
     a \in ProbedArrays} \cup
  {Put(EmptyObj, "shader_asset", JStr("shader1")),
   Put(Put(EmptyObj, "values", JStr("x")), "shader_asset", JStr("shader1"))}

---------------------------------------------------------------------------
(* The material pipeline as a state machine.                               *)

NoJson == EmptyObj
NoCall == [property |-> MaterialProperty("", "Undefined", NullOpt),
           before |-> -1, after |-> -1]

MatIdle ==
  /\ mat_pc = "idle" /\ mat_src = NoData /\ mat_json = NoJson
  /\ mat_pre = DefaultData /\ mat_data = DefaultData /\ mat_ok = "unset"
  /\ mat_size = 0 /\ mat_code = <<>> /\ mat_buf = <<>> /\ mat_idx = 0
  /\ mat_last = NoCall

\* a MaterialData built in the editor, about to be saved ...
\* ... or a material file written by hand, about to be loaded into a fresh
\* MaterialData (MaterialAsset::LoadImpl makes a new one for every load)
MatInit ==
  /\ mat_pre = DefaultData /\ mat_data = DefaultData /\ mat_ok = "unset"
  /\ mat_size = 0 /\ mat_code = <<>> /\ mat_buf = <<>> /\ mat_idx = 0
  /\ mat_last = NoCall
  /\ \/ mat_pc = "edited" /\ mat_src \in ValidMaterialData /\ mat_json = NoJson
     \/ mat_pc = "file" /\ mat_src = NoData /\ mat_json \in AuthoredJson

\* MaterialData::ToJson(&obj, data)
MatToJson ==
  /\ mat_pc = "edited"
  /\ mat_json' = ToJson(mat_src)
  /\ mat_pc' = "file"
  /\ UNCHANGED <<mat_src, mat_pre, mat_data, mat_ok, mat_size, mat_code,
                 mat_buf, mat_idx, mat_last>>

\* MaterialData::FromJson(asset_id, json, data)
MatFromJson ==
  /\ mat_pc = "file"
  /\ LET r == FromJson(mat_json, mat_pre)
     IN  /\ mat_data' = r.data
         /\ mat_ok' = IF r.ok THEN "true" ELSE "false"
  /\ mat_pc' = "parsed"
  /\ UNCHANGED <<mat_src, mat_json, mat_pre, mat_size, mat_code, mat_buf,
                 mat_idx, mat_last>>

\* CustomPipelineAction::OnTextureCreate, the loop that sizes the buffer
\* and writes the uniform block of the loaded material
MatLayout ==
  /\ mat_pc = "parsed" /\ mat_ok = "true"
  /\ mat_size' = SumSeq([i \in DOMAIN mat_data.properties |->
                           GetMemorySize(mat_data.properties[i])])
  /\ mat_code' = Flatten([i \in DOMAIN mat_data.properties |->
                            WriteAsShaderCode(mat_data.properties[i])])
  /\ mat_buf' = <<>>
  /\ mat_idx' = 1
  /\ mat_pc' = "layout"
  /\ UNCHANGED <<mat_src, mat_json, mat_pre, mat_data, mat_ok, mat_last>>

\* MaterialProperty::WriteToMemory(buffer, property) on the next property
MatWriteToMemory ==
  /\ mat_pc = "layout" /\ mat_idx \in DOMAIN mat_data.properties
  /\ LET property == mat_data.properties[mat_idx]
         written  == WriteToMemory(property)
     IN  /\ mat_buf' = mat_buf \o written
         /\ mat_last' = [property |-> property, before |-> Len(mat_buf),
                         after |-> Len(mat_buf) + Len(written)]
  /\ mat_idx' = mat_idx + 1
  /\ UNCHANGED <<mat_pc, mat_src, mat_json, mat_pre, mat_data, mat_ok,
                 mat_size, mat_code>>

ShIdle ==
  /\ sh_pc = "idle" /\ sh_items = <<>> /\ sh_source = <<>> /\ sh_names = <<>>
  /\ sh_conflicts = <<>> /\ sh_renamed = <<>> /\ sh_code = <<>>
MeshIdle ==
  /\ mesh_pc = "idle" /\ mesh_src = <<>> /\ mesh_bytes = <<>>
  /\ mesh_json = <<>> /\ mesh_out = <<>>

PlIdle ==
  /\ pl_self = <<>> /\ pl_config = "" /\ pl_materials = <<>> /\ pl_shaders = <<>> /\ pl_clock = 0
  /\ pl_out = <<>> /\ pl_last = [op |-> "idle"] /\ pl_rejected = FALSE
LdIdle ==
  /\ ld_kind = "idle" /\ ld_pc = "idle" /\ ld_heap = <<>> /\ ld_temp = 0
  /\ ld_target = <<>> /\ ld_bytes = 0 /\ ld_loaded = FALSE /\ ld_data = 0
  /\ ld_lock = "free" /\ ld_before = <<>> /\ ld_published = {} /\ ld_loads = 0
  /\ rd_pc = "idle" /\ rd_seen = <<>>
CmIdle ==
  /\ cm_self = <<>> /\ cm_meshes = <<>> /\ cm_clock = 0 /\ cm_out = <<>>
  /\ cm_last = [op |-> "idle"]
GlIdle ==
  /\ gl_pc = "idle" /\ gl_model = <<>> /\ gl_out = <<>> /\ gl_ok = "unset"
  /\ gl_origin = <<>>
McIdle ==
  /\ mc_pc = "idle" /\ mc_shader = <<>> /\ mc_material = <<>> /\ mc_ui = <<>>
ScIdle ==
  /\ sc_pc = "idle" /\ sc_source = <<>> /\ sc_before = "" /\ sc_result = <<>>
ToolIdle == McIdle /\ ScIdle
RestIdle == PlIdle /\ LdIdle /\ CmIdle /\ GlIdle /\ ToolIdle

InitMaterial == MatInit /\ ShIdle /\ MeshIdle /\ RestIdle
NextMaterial ==
  \/ MatToJson /\ UNCHANGED <<shVars, meshVars, restVars>>
  \/ MatFromJson /\ UNCHANGED <<shVars, meshVars, restVars>>
  \/ MatLayout /\ UNCHANGED <<shVars, meshVars, restVars>>
  \/ MatWriteToMemory /\ UNCHANGED <<shVars, meshVars, restVars>>
SpecMaterial == InitMaterial /\ [][NextMaterial]_vars

---------------------------------------------------------------------------
(* Properties of the material codec, checked under SpecMaterial.           *)

\* C1: for every valid MaterialData m, FromJson applied to the object
\* ToJson(m) built succeeds and yields a MaterialData equal to m: same
\* property order, code names, types, values or absence of one, and
\* shader_asset.
C1_RoundTrip ==
  (mat_pc # "edited" /\ mat_pc # "file" /\ mat_src # NoData) =>
     /\ mat_ok = "true"
     /\ mat_data = mat_src

\* C1 witness: a two-property material, a float vector ahead of a property
\* without a value, has gone through ToJson and FromJson.
C1_Witness ==
  /\ mat_pc = "parsed" /\ mat_src # NoData
  /\ Len(mat_src.properties) = 2
  /\ mat_src.properties[1].m_value.k = "floatx3"
  /\ mat_src.properties[2].m_type = "TextureAsset"
  /\ ~HasValue(mat_src.properties[2])
  /\ Len(mat_data.properties) = 2

\* C3 as claimed: WriteToMemory advances the cursor by exactly 16 bytes for
\* every property that has a value and by 0 bytes for one that has none.
C3_AdvanceAsClaimed ==
  mat_last # NoCall =>
    mat_last.after - mat_last.before =
      IF HasValue(mat_last.property) THEN 16 ELSE 0

\* C3 amended: WriteToMemory advances the cursor by exactly 16 bytes for
\* every Int/Float/Bool-family property holding a value of its type's kind,
\* whatever the element count, and by 0 bytes for every property without a
\* value and for every TextureAsset property, with or without a value.
C3_Advance ==
  mat_last # NoCall =>
    LET p == mat_last.property
        advance == mat_last.after - mat_last.before
    IN  /\ (p.m_type \in NumericTypes /\ p.m_value.k = KindOfType(p.m_type))
             => advance = 16
        /\ (~HasValue(p) \/ p.m_type = "TextureAsset") => advance = 0
        /\ mat_last.after = Len(mat_buf)

\* C3 witness: WriteToMemory has been called on a three-element vector
\* after an earlier call on a TextureAsset property that holds an asset id.
C3_Witness ==
  /\ mat_last # NoCall
  /\ mat_last.property.m_value.k \in {"s32x3", "floatx3"}
  /\ mat_idx = 3
  /\ mat_data.properties[1].m_type = "TextureAsset"
  /\ HasValue(mat_data.properties[1])

\* C4: the uniform block declares the same 16-byte lanes as the buffer
\* holds: a property contributes four declared scalars exactly if it
\* contributes 16 bytes, a property without a value contributes neither
\* bytes nor declarations, and so the block declares one scalar for every
\* four bytes of m_material_data.
C4_BlockMirrorsBuffer ==
  mat_pc = "layout" =>
    /\ \A i \in DOMAIN mat_data.properties :
         LET p == mat_data.properties[i]
             scalars == DeclaredScalars(WriteAsShaderCode(p))
         IN  /\ (scalars = 4) <=> (GetMemorySize(p) = 16)
             /\ ~HasValue(p) => (scalars = 0 /\ GetMemorySize(p) = 0)
    /\ SizeofFloat * DeclaredScalars(mat_code) = mat_size

\* C4 witness: a material whose numeric property has no value was laid out.
C4_Witness ==
  /\ mat_pc = "layout"
  /\ \E i \in DOMAIN mat_data.properties :
       /\ mat_data.properties[i].m_type = "Float4"
       /\ ~HasValue(mat_data.properties[i])

\* the text the claim expects of one property
C5_TypeWord(t) ==
  IF t \in {"Int", "Int2", "Int3", "Int4"} THEN "int"
  ELSE IF t = "Bool" THEN "bool" ELSE "float"
C5_Count(t) ==
  IF t \in {"Int", "Float", "Bool"} THEN 1
  ELSE IF t \in {"Int2", "Float2"} THEN 2
  ELSE IF t \in {"Int3", "Float3"} THEN 3 ELSE 4
C5_Expected(p) ==
  IF p.m_type = "TextureAsset" THEN <<>>
  ELSE LET n == C5_Count(p.m_type)
           w == C5_TypeWord(p.m_type)
       IN  <<w \o (IF n > 1 THEN ToString(n) ELSE "") \o " " \o p.m_code_name \o ";\n">>
           \o [j \in 1..(4 - n) |->
                 w \o " " \o p.m_code_name \o "_padding_" \o ToString(n + j) \o ";\n"]

\* C5: WriteAsShaderCode emits nothing for a TextureAsset property; for an
\* Int/Float/Bool-family property named c with n elements it emits one
\* declaration of c (the type name suffixed with n when n > 1) followed by
\* exactly 4 - n padding declarations c_padding_{n+1} .. c_padding_4, all
\* distinct.
C5_ShaderCode ==
  mat_pc = "layout" =>
    /\ [i \in DOMAIN mat_code |-> Format(mat_code[i])] =
         Flatten([i \in DOMAIN mat_data.properties |->
                    C5_Expected(mat_data.properties[i])])
    /\ \A i \in DOMAIN mat_data.properties :
         LET ws == WriteAsShaderCode(mat_data.properties[i])
         IN  \A a, b \in DOMAIN ws : a # b => ws[a].name # ws[b].name

\* C5 witness: the int property `count` was laid out as `int count;` and
\* the paddings count_padding_2, count_padding_3 and count_padding_4.
C5_Witness ==
  /\ mat_pc = "layout"
  /\ Len(mat_data.properties) = 1
  /\ mat_data.properties[1].m_type = "Int"
  /\ [i \in DOMAIN mat_code |-> Format(mat_code[i])] =
       <<"int count;\n", "int count_padding_2;\n",
         "int count_padding_3;\n", "int count_padding_4;\n">>

\* the JSON shape the claim requires of a value of each type
C6_ShapeMatches(t, j) ==
  CASE t = "TextureAsset" -> j.k = "string"
    [] t \in {"Int", "Float"} -> j.k = "number"
    [] t = "Bool" -> j.k = "boolean"
    [] OTHER ->
         /\ j.k = "array"
         /\ Len(j.v) = C5_Count(t)
         /\ \A i \in DOMAIN j.v : j.v[i].k = "number"
\* an entry that names one of the ten types and carries a `value` of
\* another shape than that type's
C6_Mismatched(e) ==
  /\ e.k = "object"
  /\ {"type", "value"} \subseteq DOMAIN e.v
  /\ e.v["type"].k = "string"
  /\ ToLower(e.v["type"].v) \in TypeNames
  /\ ~C6_ShapeMatches(TypeOfName(ToLower(e.v["type"].v)), e.v["value"])

\* C6: a `value` whose JSON shape does not match the declared type makes
\* FromJson fail; a TextureAsset property whose value is not a string is
\* never accepted.
C6_MismatchFails ==
  (/\ mat_pc = "parsed"
   /\ "values" \in DOMAIN mat_json
   /\ mat_json["values"].k = "array"
   /\ \E i \in DOMAIN mat_json["values"].v : C6_Mismatched(mat_json["values"].v[i]))
    => mat_ok = "false"

\* C6 witness: a file whose float2 entry carries three numbers was refused.
C6_Witness ==
  /\ mat_pc = "parsed" /\ mat_ok = "false"
  /\ "values" \in DOMAIN mat_json
  /\ mat_json["values"].k = "array"
  /\ \E i \in DOMAIN mat_json["values"].v :
       LET e == mat_json["values"].v[i]
       IN  /\ C6_Mismatched(e)
           /\ e.v["type"].v = "float2"
           /\ e.v["value"].k = "array"

\* C7: whenever FromJson returns failure, the output MaterialData is what
\* it was before the call: it holds no property of the failed input.
C7_AllOrNothing ==
  (mat_pc = "parsed" /\ mat_ok = "false") => mat_data = mat_pre

\* C7 witness: FromJson failed on a file whose first entry is well formed.
C7_Witness ==
  /\ mat_pc = "parsed" /\ mat_ok = "false"
  /\ "values" \in DOMAIN mat_json
  /\ mat_json["values"].k = "array"
  /\ Len(mat_json["values"].v) = 2
  /\ mat_json["values"].v[1] \in GoodEntries

---------------------------------------------------------------------------
(* Shader text.  A text is a sequence of characters, each a one-character  *)
(* string; indices are the code's (from 0).                                *)

Letters == {"a", "b", "c", "d", "e", "f", "g", "h", "i", "j", "k", "l", "m",
            "n", "o", "p", "q", "r", "s", "t", "u", "v", "w", "x", "y", "z",
            "A", "B", "C", "D", "E", "F", "G", "H", "I", "J", "K", "L", "M",
            "N", "O", "P", "Q", "R", "S", "T", "U", "V", "W", "X", "Y", "Z"}
DigitChars == {"0", "1", "2", "3", "4", "5", "6", "7", "8", "9"}
\* the character that ends the std::string a string_view looks at
NUL == "NUL"

\* Common::IsAlpha(c) || c == '_' || std::isdigit(c)
IsIdentifierChar(c) == c \in Letters \/ c = "_" \/ c \in DigitChars

\* source[i]: index size() reads the terminator of the std::string behind
\* the view; index -1 reads whatever byte lies before the buffer
At(source, i, before) ==
  IF i >= 0 /\ i < Len(source) THEN source[i + 1]
  ELSE IF i = Len(source) THEN NUL
  ELSE before

\* source.substr(start, count)
Substr(source, start, count) == SubSeq(source, start + 1, start + count)

W_define  == <<"d", "e", "f", "i", "n", "e">>
W_layout  == <<"l", "a", "y", "o", "u", "t">>
\* IsQualifier
Qualifiers ==
  {<<"a", "t", "t", "r", "i", "b", "u", "t", "e">>,
   <<"c", "o", "n", "s", "t">>,
   <<"h", "i", "g", "h", "p">>,
   <<"l", "o", "w", "p">>,
   <<"m", "e", "d", "i", "u", "m", "p">>,
   <<"u", "n", "i", "f", "o", "r", "m">>,
   <<"v", "a", "r", "y", "i", "n", "g">>}
IsQualifier(value) == value \in Qualifiers
\* IsBuiltInMacro
BuiltInMacros ==
  {<<"_", "_", "L", "I", "N", "E", "_", "_">>,
   <<"_", "_", "F", "I", "L", "E", "_", "_">>,
   <<"_", "_", "V", "E", "R", "S", "I", "O", "N", "_", "_">>,
   <<"G", "L", "_", "c", "o", "r", "e", "_", "p", "r", "o", "f", "i", "l", "e">>,
   <<"G", "L", "_", "c", "o", "m", "p", "a", "t", "i", "b", "i", "l", "i", "t", "y", "_", "p", "r", "o", "f", "i", "l", "e">>}
IsBuiltInMacro(value) == value \in BuiltInMacros

\* the loop of parse_identifier: the first index from i on that holds no
\* identifier character, or size()
RECURSIVE IdentifierEnd(_, _)
IdentifierEnd(source, i) ==
  IF i >= Len(source) THEN i
  ELSE IF ~IsIdentifierChar(source[i + 1]) THEN i
  ELSE IdentifierEnd(source, i + 1)

\* parse_until_end_of_preprocessor from i: the index it stops at
RECURSIVE PreprocessorEnd(_, _, _)
PreprocessorEnd(source, i, continue_until_next_newline) ==
  IF i >= Len(source) THEN i
  ELSE IF source[i + 1] = "\n"
    THEN IF continue_until_next_newline
           THEN PreprocessorEnd(source, i + 1, FALSE)
           ELSE i
  ELSE IF source[i + 1] = "\\" THEN PreprocessorEnd(source, i + 1, TRUE)
  ELSE PreprocessorEnd(source, i + 1, continue_until_next_newline)

\* while (source[i] == ' ') i++
RECURSIVE SkipSpaces(_, _)
SkipSpaces(source, i) ==
  IF At(source, i, NUL) = " " THEN SkipSpaces(source, i + 1) ELSE i

\* for (; i < source.size(); i++) if (source[i] == c) break;
RECURSIVE FindChar(_, _, _)
FindChar(source, i, c) ==
  IF i >= Len(source) THEN i
  ELSE IF source[i + 1] = c THEN i
  ELSE FindChar(source, i + 1, c)

\* for (; i < size; i++) if (source[i] == '/' && source[i - 1] == '*') break;
RECURSIVE BlockCommentEnd(_, _, _)
BlockCommentEnd(source, i, before) ==
  IF i >= Len(source) THEN i
  ELSE IF source[i + 1] = "/" /\ At(source, i - 1, before) = "*" THEN i
  ELSE BlockCommentEnd(source, i + 1, before)

\* the scope > 0 branch of GlobalConflicts: only braces are looked at
ScanInScope(c, scope) ==
  IF c = "{" THEN scope + 1
  ELSE IF c = "}" THEN scope - 1
  ELSE scope

\* the '=' branch: i++, then on to the terminating ';'
AfterAssignment(source, i) == FindChar(source, i + 1, ";")

\* The for loop of GlobalConflicts from index i on: global_result in the
\* order of the pushes.  `before` is the byte read by source[i - 1] at i = 0.
RECURSIVE ScanFrom(_, _, _, _, _, _)
ScanFrom(source, i, scope, last_identifier, global_result, before) ==
  IF i >= Len(source) THEN global_result
  ELSE LET c == source[i + 1] IN
    IF scope > 0
      THEN ScanFrom(source, i + 1, ScanInScope(c, scope), last_identifier,
                    global_result, before)
    ELSE IF c \in Letters \/ c = "_"
      THEN LET end == IdentifierEnd(source, i)
               identifier == Substr(source, i, end - i)
           IN  ScanFrom(source, end, scope,
                        IF IsQualifier(identifier) \/ IsBuiltInMacro(identifier)
                          THEN last_identifier ELSE identifier,
                        global_result, before)
    ELSE IF c = "#"
      THEN LET end == IdentifierEnd(source, i + 1)
               identifier == Substr(source, i + 1, end - (i + 1))
           IN  IF identifier = W_define
                 THEN LET start == SkipSpaces(source, end)
                          nend  == IdentifierEnd(source, start)
                          name  == Substr(source, start, nend - start)
                          stop  == PreprocessorEnd(source, nend - 1, FALSE)
                      IN  ScanFrom(source, stop + 1, scope, last_identifier,
                                   Append(global_result, name), before)
                 ELSE ScanFrom(source, PreprocessorEnd(source, end - 1, FALSE) + 1,
                               scope, last_identifier, global_result, before)
    ELSE IF c = "{"
      THEN ScanFrom(source, i + 1, scope + 1, last_identifier, global_result, before)
    ELSE IF c = "("
      THEN ScanFrom(source, i + 1, scope, last_identifier,
                    IF last_identifier = W_layout THEN global_result
                    ELSE Append(global_result, last_identifier), before)
    ELSE IF c = "="
      THEN ScanFrom(source, AfterAssignment(source, i) + 1, scope, last_identifier,
                    Append(global_result, last_identifier), before)
    ELSE IF c = "/"
      THEN IF i + 1 >= Len(source)
             THEN ScanFrom(source, i + 1, scope, last_identifier, global_result, before)
           ELSE IF source[i + 2] = "/"
             THEN ScanFrom(source, FindChar(source, i, "\n") + 1, scope,
                           last_identifier, global_result, before)
           ELSE IF source[i + 2] = "*"
             THEN ScanFrom(source, BlockCommentEnd(source, i, before) + 1, scope,
                           last_identifier, global_result, before)
           ELSE ScanFrom(source, i + 1, scope, last_identifier, global_result, before)
    ELSE ScanFrom(source, i + 1, scope, last_identifier, global_result, before)

\* the orders std::sort may leave global_result in: by size, largest
\* first; the order of entries of equal size is unspecified
SortedBySize(global_result) ==
  LET n == Len(global_result)
      perms == {f \in [1..n -> 1..n] : \A a, b \in 1..n : a # b => f[a] # f[b]}
  IN  {[j \in 1..n |-> global_result[f[j]]] :
         f \in {g \in perms :
                  \A a, b \in 1..n :
                    a < b => Len(global_result[g[a]]) >= Len(global_result[g[b]])}}

\* GlobalConflicts(source): the results it may return
GlobalConflicts(source, before) ==
  SortedBySize(ScanFrom(source, 0, 0, <<>>, <<>>, before))

---------------------------------------------------------------------------
(* The rewrite of OnDrawStarted.                                           *)

\* std::string::find(src, pos): the first index from pos on where src
\* occurs, or -1 (npos)
Find(result, src, pos) ==
  LET found == {q \in pos..(Len(result) - Len(src)) :
                  Substr(result, q, Len(src)) = src}
  IN  IF found = {} THEN -1
      ELSE CHOOSE q \in found : \A r \in found : q <= r

\* the loop of ReplaceAll: replace at the next occurrence and go on behind
\* the replacement
RECURSIVE ReplaceFrom(_, _, _, _)
ReplaceFrom(result, src, dest, pos) ==
  LET q == Find(result, src, pos)
  IN  IF q = -1 THEN result
      ELSE ReplaceFrom(Substr(result, 0, q) \o dest
                         \o Substr(result, q + Len(src), Len(result) - q - Len(src)),
                       src, dest, q + Len(dest))

\* ReplaceAll(result, src, dest) of Common/StringUtil, for a src that is
\* not empty: every occurrence of src, left to right, becomes dest
ReplaceAll(result, src, dest) ==
  IF src = dest THEN result ELSE ReplaceFrom(result, src, dest, 0)

\* fmt's decimal rendering of an unsigned number
DigitOf == <<"0", "1", "2", "3", "4", "5", "6", "7", "8", "9">>
RECURSIVE FormatNumber(_)
FormatNumber(n) ==
  IF n < 10 THEN <<DigitOf[n + 1]>>
  ELSE FormatNumber(n \div 10) \o <<DigitOf[(n % 10) + 1]>>

W_custom_main == <<"c", "u", "s", "t", "o", "m", "_", "m", "a", "i", "n">>
CUSTOM_PIXELSHADER_COLOR_FUNC ==
  <<"c", "u", "s", "t", "o", "m", "S", "h", "a", "d", "e", "r", "C", "o", "l", "o", "r">>
W_CRLF == <<"\r", "\n">>
W_LF == <<"\n">>
W_COORD == <<"_", "C", "O", "O", "R", "D">>
W_UNIT == <<"_", "U", "N", "I", "T">>
\* the text "_{0}" that the later format call fills with the instance index
W_INSTANCE == <<"_", "{", "0", "}">>

\* fmt::format("_{0}_DOLPHIN_TEMP_{0}_", i)
Placeholder(i) ==
  <<"_">> \o FormatNumber(i) \o <<"_", "D", "O", "L", "P", "H", "I", "N", "_", "T", "E", "M", "P", "_">> \o FormatNumber(i) \o <<"_">>

\* fmt::format("{}_{{0}}", identifier)
Renamed(identifier) == identifier \o W_INSTANCE

\* lines 320-321: the entry-point marker becomes the colour function
EntryRenamed(shader_source) ==
  ReplaceAll(shader_source, W_custom_main, CUSTOM_PIXELSHADER_COLOR_FUNC)

\* lines 323-325: line ends unified, braces doubled for the later format
Escaped(text) ==
  ReplaceAll(ReplaceAll(ReplaceAll(text, W_CRLF, W_LF), <<"{">>, <<"{", "{">>),
             <<"}">>, <<"}", "}">>)

\* lines 329-334: conflicts i .. size-1 become their placeholders
RECURSIVE ToPlaceholders(_, _, _)
ToPlaceholders(text, global_conflicts, i) ==
  IF i >= Len(global_conflicts) THEN text
  ELSE ToPlaceholders(ReplaceAll(text, global_conflicts[i + 1], Placeholder(i)),
                      global_conflicts, i + 1)

\* lines 336-341: placeholders i .. size-1 become the renamed identifiers
RECURSIVE FromPlaceholders(_, _, _)
FromPlaceholders(text, global_conflicts, i) ==
  IF i >= Len(global_conflicts) THEN text
  ELSE FromPlaceholders(ReplaceAll(text, Placeholder(i), Renamed(global_conflicts[i + 1])),
                        global_conflicts, i + 1)

\* lines 323-341
RenameConflicts(text, global_conflicts) ==
  FromPlaceholders(ToPlaceholders(Escaped(text), global_conflicts, 0),
                   global_conflicts, 0)

\* lines 343-350: the texture accessors get the instance suffix
RECURSIVE RenameTextures(_, _, _)
RenameTextures(text, texture_code_names, k) ==
  IF k > Len(texture_code_names) THEN text
  ELSE LET name == texture_code_names[k]
           coord == ReplaceAll(text, name \o W_COORD, name \o W_COORD \o W_INSTANCE)
       IN  RenameTextures(ReplaceAll(coord, name \o W_UNIT, name \o W_UNIT \o W_INSTANCE),
                          texture_code_names, k + 1)

\* WriteDefines from entry i on
RECURSIVE WriteDefines(_, _, _)
WriteDefines(texture_code_names, texture_unit, i) ==
  IF i >= Len(texture_code_names) THEN <<>>
  ELSE LET code_name == texture_code_names[i + 1]
       IN  <<"#", "d", "e", "f", "i", "n", "e", " ">> \o code_name \o <<"_", "U", "N", "I", "T", "_", "{", "0", "}", " ">>
             \o FormatNumber(texture_unit) \o W_LF
             \o <<"#", "d", "e", "f", "i", "n", "e", " ">> \o code_name \o <<"_", "C", "O", "O", "R", "D", "_", "{", "0", "}", " ", "f", "l", "o", "a", "t", "3", "(", "d", "a", "t", "a", ".", "t", "e", "x", "c", "o", "o", "r", "d", "[">>
             \o <<"d", "a", "t", "a", ".", "t", "e", "x", "m", "a", "p", "_", "t", "o", "_", "t", "e", "x", "c", "o", "o", "r", "d", "_", "i", "n", "d", "e", "x", "[">> \o FormatNumber(texture_unit)
             \o <<"]", "]", ".", "x", "y", ",", " ">> \o FormatNumber(i) \o <<")">> \o W_LF
             \o WriteDefines(texture_code_names, texture_unit, i + 1)

---------------------------------------------------------------------------
(* Shader sources under test.  A source is written from a short program   *)
(* of top-level items; the program says which names the source defines at *)
(* depth 0 and which identifiers live in bodies only.                     *)

\* Longest program of top-level items of a shader source under test.
MaxItems == 2

N_execute      == <<"e", "x", "e", "c", "u", "t", "e">>
N_execute_fast == <<"e", "x", "e", "c", "u", "t", "e", "_", "f", "a", "s", "t">>
N_TEMP         == <<"T", "E", "M", "P">>
N_y            == <<"y">>
N_tex          == <<"t", "e", "x">>
N_tex_UNIT     == N_tex \o W_UNIT

Body(text, idents) == [text |-> text, idents |-> idents]
EmptyBody == Body(<<>>, {})
Bodies ==
  {EmptyBody,
   Body(<<"y", "=", "1", ";">>, {N_y}),
   Body(<<"{", "y", "=", "t", "e", "x", "_", "U", "N", "I", "T", ";", "}">>, {N_y, N_tex_UNIT}),
   Body(<<"/", "/", "q", "\n", "y", "=", "1", ";">>, {N_y}),
   Body(<<"\n", "#", "d", "e", "f", "i", "n", "e", " ", "y", " ", "1", "\n">>, {N_y}),
   Body(<<"/", "*", "}", "*", "/", "y", "=", "1", ";">>, {N_y}),
   Body(<<"/", "*", "{", "*", "/">>, {}),
   Body(N_execute_fast \o <<"=", "1", ";">>, {N_execute_fast})}

Item(kind, name, other, body) ==
  [kind |-> kind, name |-> name, other |-> other, body |-> body]
Items ==
  {Item("define", n, <<>>, EmptyBody) : n \in {N_TEMP, N_execute}}
  \cup {Item("global", n, <<>>, EmptyBody) : n \in {N_TEMP, N_execute_fast}}
  \cup {Item("globals", N_TEMP, N_execute, EmptyBody)}
  \cup {Item("func", n, <<>>, b) :
          n \in {N_execute, N_execute_fast, W_custom_main}, b \in Bodies}
  \cup {Item("comment", <<>>, t, EmptyBody) :
          t \in {<<"/", "/", "q", "=", "1", "\n">>,
                 <<"/", "*", "q", "=", "1", ";", "*", "/">>,
                 <<"/", "*", "/", "q", "=", "1", ";", "*", "/">>}}
Programs == SeqsUpTo(Items, MaxItems)

\* the text of one item
Render(item) ==
  CASE item.kind = "define" ->
         <<"#", "d", "e", "f", "i", "n", "e", " ">> \o item.name \o <<" ", "1", "\r", "\n">>
    [] item.kind = "global" ->
         <<"i", "n", "t", " ">> \o item.name \o <<"=", "1", ";", "\n">>
    [] item.kind = "globals" ->
         <<"i", "n", "t", " ">> \o item.name \o <<"=", "1", ",">> \o item.other \o <<"=", "2", ";", "\n">>
    [] item.kind = "func" ->
         <<"v", "o", "i", "d", " ">> \o item.name \o <<"(", ")", "{">> \o item.body.text \o <<"}", "\n">>
    [] OTHER -> item.other
RenderAll(items) == Flatten([k \in DOMAIN items |-> Render(items[k])])

\* the name an item's name has in the scanned text
ScannedName(name) ==
  IF name = W_custom_main THEN CUSTOM_PIXELSHADER_COLOR_FUNC ELSE name

\* the names the program defines at depth 0
TopLevelDefined(items) ==
  UNION {CASE items[k].kind \in {"define", "global", "func"} ->
                {ScannedName(items[k].name)}
           [] items[k].kind = "globals" -> {items[k].name, items[k].other}
           [] OTHER -> {} : k \in DOMAIN items}

\* the identifier tokens of a text from index i on
RECURSIVE Tokens(_, _)
Tokens(text, i) ==
  IF i >= Len(text) THEN {}
  ELSE IF IsIdentifierChar(text[i + 1])
    THEN LET end == IdentifierEnd(text, i)
         IN  {Substr(text, i, end - i)} \cup Tokens(text, end)
  ELSE Tokens(text, i + 1)

\* the identifiers that stand outside every body
OutsideIdentifiers(items) ==
  UNION {Tokens(EntryRenamed(Render([items[k] EXCEPT !.body = EmptyBody])), 0) :
           k \in DOMAIN items}

\* the identifiers that appear inside { ... } only
InsideOnly(items) ==
  UNION {items[k].body.idents : k \in DOMAIN items} \ OutsideIdentifiers(items)

\* the text with every identifier token of `conflicts` renamed and every
\* other character as it is
RECURSIVE TokenwiseRenamed(_, _, _)
TokenwiseRenamed(text, conflicts, i) ==
  IF i >= Len(text) THEN <<>>
  ELSE IF IsIdentifierChar(text[i + 1])
    THEN LET end == IdentifierEnd(text, i)
             token == Substr(text, i, end - i)
         IN  (IF token \in conflicts THEN Renamed(token) ELSE token)
               \o TokenwiseRenamed(text, conflicts, end)
  ELSE <<text[i + 1]>> \o TokenwiseRenamed(text, conflicts, i + 1)

---------------------------------------------------------------------------
(* The shader rewrite as a state machine.                                  *)

\* what source[-1] may read: the byte before the buffer
BytesBefore == {NUL, "*"}
TextureUnits == 0..1
TextureCodeNames == {<<>>, <<N_tex>>}

ShInit ==
  /\ sh_pc = "loaded"
  /\ sh_items \in Programs
  /\ sh_source = RenderAll(sh_items)
  /\ sh_names \in TextureCodeNames
  /\ sh_conflicts = <<>> /\ sh_renamed = <<>> /\ sh_code = <<>>

\* CustomPipelineAction::OnDrawStarted with a valid pass, a loaded shader
\* asset and nothing generated yet
OnDrawStarted ==
  /\ sh_pc = "loaded"
  /\ sh_code = <<>>
  /\ \E before \in BytesBefore, texture_unit \in TextureUnits :
       LET color_shader_data == EntryRenamed(sh_source)
       IN  \E global_conflicts \in GlobalConflicts(color_shader_data, before) :
             LET renamed == RenameConflicts(color_shader_data, global_conflicts)
             IN  /\ sh_conflicts' = global_conflicts
                 /\ sh_renamed' = renamed
                 /\ sh_code' = WriteDefines(sh_names, texture_unit, 0)
                                 \o RenameTextures(renamed, sh_names, 1)
  /\ sh_pc' = "drawn"
  /\ UNCHANGED <<sh_items, sh_source, sh_names>>

InitShader == MatIdle /\ ShInit /\ MeshIdle /\ RestIdle
NextShader == OnDrawStarted /\ UNCHANGED <<matVars, meshVars, restVars>>
SpecShader == InitShader /\ [][NextShader]_vars

---------------------------------------------------------------------------
(* Claims about the scanner and the rewrite, checked under SpecShader.     *)

\* C8: GlobalConflicts never reports an identifier that appears only
\* inside a { ... } block of the scanned source, whatever the bodies hold
\* (comments, nested braces, preprocessor lines).
C8_NoBlockScoped ==
  sh_pc = "drawn" =>
    \A k \in DOMAIN sh_conflicts : sh_conflicts[k] \notin InsideOnly(sh_items)

\* a scan of a source with a function whose body holds a comment and a
\* local name
C8_Witness ==
  /\ sh_pc = "drawn"
  /\ \E k \in DOMAIN sh_items :
       /\ sh_items[k].kind = "func"
       /\ Find(sh_items[k].body.text, <<"/", "*">>, 0) # -1
  /\ N_y \in InsideOnly(sh_items)

\* C9: GlobalConflicts reports every top-level #define name, every global
\* defined by assignment at depth 0 and every function defined at depth 0,
\* wherever in the source they occur.
C9_AllTopLevel ==
  sh_pc = "drawn" =>
    \A n \in TopLevelDefined(sh_items) : n \in Range(sh_conflicts)

\* a scan of a source with two top-level definitions, the later one
\* standing after a function body
C9_Witness ==
  /\ sh_pc = "drawn"
  /\ Len(sh_items) = 2
  /\ sh_items[1].kind = "func"
  /\ sh_items[2].kind \in {"define", "global", "func"}

\* C10: after the two renaming loops every occurrence of each conflict
\* identifier reads {identifier}_{instance index}, and nothing else of the
\* text has changed, also when a conflict identifier is a substring of
\* another or of the placeholder.
C10_TwoPhaseRename ==
  sh_pc = "drawn" =>
    sh_renamed = TokenwiseRenamed(Escaped(EntryRenamed(sh_source)),
                                  Range(sh_conflicts), 0)

\* a rewrite whose conflict list holds an identifier and a longer one
\* that contains it
C10_Witness ==
  /\ sh_pc = "drawn"
  /\ \E a, b \in DOMAIN sh_conflicts :
       /\ Len(sh_conflicts[a]) < Len(sh_conflicts[b])
       /\ Find(sh_conflicts[b], sh_conflicts[a], 0) # -1

---------------------------------------------------------------------------
(* The mesh codec.  Bytes are numbers 0..255; a name is the sequence of   *)
(* its bytes; a float is its four bytes; the vertex declaration is the    *)
(* bytes of the struct.                                                    *)

\* Longest chunk list of a MeshData under test.
MaxChunks == 2
\* Bytes standing for sizeof(PortableVertexDeclaration).
DeclBytes == 3

SizeofSizeT == 8
SizeofU32 == 4
SizeofU16 == 2
SizeofPrimitiveType == 4
\* chunk.transform.data.size()
TransformFloats == 16

\* the object representation of an unsigned number of `width` bytes
RECURSIVE LittleEndian(_, _)
LittleEndian(n, width) ==
  IF width = 0 THEN <<>>
  ELSE <<n % 256>> \o LittleEndian(n \div 256, width - 1)

\* the unsigned number a sequence of bytes is the representation of
RECURSIVE FromLittleEndian(_)
FromLittleEndian(bytes) ==
  IF bytes = <<>> THEN 0 ELSE Head(bytes) + 256 * FromLittleEndian(Tail(bytes))

\* a mutant: the index list written most significant byte first
IndexBytesSwapped(indices) ==
  Flatten([k \in DOMAIN indices |->
             <<indices[k] \div 256, indices[k] % 256>>])

\* the bytes of chunk.indices
IndexBytes(indices) ==
  Flatten([k \in DOMAIN indices |-> LittleEndian(indices[k], SizeofU16)])

MeshDataChunk(num_vertices, vertex_stride, vertex_data, num_indices, indices, vertex_declaration, primitive_type, components_available, transform, material_name) ==
  [num_vertices |-> num_vertices, vertex_stride |-> vertex_stride,
   vertex_data |-> vertex_data, num_indices |-> num_indices,
   indices |-> indices, vertex_declaration |-> vertex_declaration,
   primitive_type |-> primitive_type,
   components_available |-> components_available,
   transform |-> transform, material_name |-> material_name]

MeshData(chunks, mapping) ==
  [m_mesh_chunks |-> chunks, m_mesh_material_to_material_asset_id |-> mapping]
\* std::make_shared<MeshData>()
EmptyMapping == [x \in {} |-> ""]
FreshMeshData == MeshData(<<>>, EmptyMapping)

\* the WriteBytes calls of ToDolphinMesh for one chunk
ChunkToBytes(chunk) ==
  LittleEndian(chunk.num_vertices, SizeofU32)
    \o LittleEndian(chunk.vertex_stride, SizeofU32)
    \o SubSeq(chunk.vertex_data, 1, chunk.num_vertices * chunk.vertex_stride)
    \o LittleEndian(chunk.num_indices, SizeofU32)
    \o IndexBytes(SubSeq(chunk.indices, 1, chunk.num_indices))
    \o chunk.vertex_declaration
    \o LittleEndian(chunk.primitive_type, SizeofPrimitiveType)
    \o LittleEndian(chunk.components_available, SizeofU32)
    \o Flatten(chunk.transform)
    \o LittleEndian(Len(chunk.material_name), SizeofSizeT)
    \o chunk.material_name

\* MeshData::ToDolphinMesh: the bytes written to the file
ToDolphinMesh(data) ==
  LittleEndian(Len(data.m_mesh_chunks), SizeofSizeT)
    \o Flatten([k \in DOMAIN data.m_mesh_chunks |->
                  ChunkToBytes(data.m_mesh_chunks[k])])

\* memcpy(&field, raw_data.data() + offset, width)
ReadBytes(raw_data, offset, width) == SubSeq(raw_data, offset + 1, offset + width)
ReadUnsigned(raw_data, offset, width) ==
  FromLittleEndian(ReadBytes(raw_data, offset, width))

\* one pass of the loop of FromDolphinMesh: the chunk read at offset and
\* the offset behind it
ReadChunk(raw_data, offset) ==
  LET num_vertices  == ReadUnsigned(raw_data, offset, SizeofU32)
      vertex_stride == ReadUnsigned(raw_data, offset + SizeofU32, SizeofU32)
      o1 == offset + 2 * SizeofU32
      vertex_data == ReadBytes(raw_data, o1, num_vertices * vertex_stride)
      o2 == o1 + num_vertices * vertex_stride
      num_indices == ReadUnsigned(raw_data, o2, SizeofU32)
      o3 == o2 + SizeofU32
      indices == [k \in 1..num_indices |->
                    ReadUnsigned(raw_data, o3 + (k - 1) * SizeofU16, SizeofU16)]
      o4 == o3 + num_indices * SizeofU16
      vertex_declaration == ReadBytes(raw_data, o4, DeclBytes)
      o5 == o4 + DeclBytes
      primitive_type == ReadUnsigned(raw_data, o5, SizeofPrimitiveType)
      o6 == o5 + SizeofPrimitiveType
      components_available == ReadUnsigned(raw_data, o6, SizeofU32)
      o7 == o6 + SizeofU32
      transform == [k \in 1..TransformFloats |->
                      ReadBytes(raw_data, o7 + (k - 1) * SizeofFloat, SizeofFloat)]
      o8 == o7 + TransformFloats * SizeofFloat
      material_name_size == ReadUnsigned(raw_data, o8, SizeofSizeT)
      o9 == o8 + SizeofSizeT
      material_name == ReadBytes(raw_data, o9, material_name_size)
  IN  [chunk |-> MeshDataChunk(num_vertices, vertex_stride, vertex_data,
                               num_indices, indices, vertex_declaration,
                               primitive_type, components_available,
                               transform, material_name),
       offset |-> o9 + material_name_size]

\* the loop of FromDolphinMesh: the chunks pushed onto m_mesh_chunks
RECURSIVE ReadChunks(_, _, _, _)
ReadChunks(raw_data, offset, remaining, chunks) ==
  IF remaining = 0 THEN chunks
  ELSE LET r == ReadChunk(raw_data, offset)
       IN  ReadChunks(raw_data, r.offset, remaining - 1, Append(chunks, r.chunk))

\* MeshData::FromDolphinMesh(raw_data, data) for a stream that holds all
\* the bytes its counts announce: *data afterwards
FromDolphinMesh(raw_data, data) ==
  LET chunk_size == ReadUnsigned(raw_data, 0, SizeofSizeT)
  IN  [data EXCEPT !.m_mesh_chunks =
         ReadChunks(raw_data, SizeofSizeT, chunk_size, data.m_mesh_chunks)]

\* MeshData::ToJson: json_obj afterwards
MeshToJson(obj, data) ==
  LET mapping == data.m_mesh_material_to_material_asset_id
  IN  Put(obj, "material_mapping",
          JObj([material_name \in DOMAIN mapping |-> JStr(mapping[material_name])]))

\* the order of the keys of a picojson::object (std::map<std::string, ...>)
RECURSIVE NameLess(_, _)
NameLess(a, b) ==
  IF b = <<>> THEN FALSE
  ELSE IF a = <<>> THEN TRUE
  ELSE IF Head(a) # Head(b) THEN Head(a) < Head(b)
  ELSE NameLess(Tail(a), Tail(b))

\* MeshData::FromJson: its return value and *data afterwards
MeshFromJson(json, data) ==
  IF "material_mapping" \notin DOMAIN json THEN [ok |-> TRUE, data |-> data]
  ELSE IF ~Is(json["material_mapping"], "object") THEN [ok |-> FALSE, data |-> data]
  ELSE LET entries == json["material_mapping"].v
           bad == {n \in DOMAIN entries : ~Is(entries[n], "string")}
           read == {n \in DOMAIN entries : \A m \in bad : NameLess(n, m)}
           old == data.m_mesh_material_to_material_asset_id
       IN  [ok |-> bad = {},
            data |-> [data EXCEPT !.m_mesh_material_to_material_asset_id =
                        [n \in DOMAIN old \cup read |->
                           IF n \in read THEN entries[n].v ELSE old[n]]]]

---------------------------------------------------------------------------
(* Meshes under test: what the importer can have built.                    *)

\* n bytes that differ from place to place
Pattern(n, seed) == [k \in 1..n |-> (k * 97 + seed) % 256]

\* a 4x4 matrix of floats, row by row, with `corner` in its last column
Matrix(corner) ==
  [k \in 1..TransformFloats |->
     IF k = 4 THEN F32Bytes(corner)
     ELSE IF k \in {1, 6, 11, 16} THEN F32Bytes(FloatDen)
     ELSE F32Bytes(0)]

M_m == <<109>>
M_n == <<110>>
SampleStride == 3
SampleIndices == {<<>>, <<0, 1, 258>>}

MeshChunks ==
  {MeshDataChunk(nv, SampleStride, Pattern(nv * SampleStride, nv),
                 Len(idx), idx, Pattern(DeclBytes, 7 + nv), Len(idx),
                 1 + 256 * nv, Matrix(IF name = <<>> THEN 0 ELSE -FloatDen), name) :
     nv \in {0, 2}, idx \in SampleIndices, name \in {<<>>, M_m}}

\* ReadGLTFMaterials: every material of the model is mapped to ""
ImportedMapping(materials) == [name \in materials |-> ""]

ImportedMeshData ==
  {MeshData(chunks, ImportedMapping(materials)) :
     chunks \in SeqsUpTo(MeshChunks, MaxChunks), materials \in SUBSET {M_m, M_n}}

MeshInit ==
  /\ mesh_pc = "imported"
  /\ mesh_src \in ImportedMeshData
  /\ mesh_bytes = <<>>
  /\ mesh_json = EmptyObj
  /\ mesh_out = FreshMeshData

\* the mesh is saved: MeshData::ToDolphinMesh writes the file
MeshWrite ==
  /\ mesh_pc = "imported"
  /\ mesh_bytes' = ToDolphinMesh(mesh_src)
  /\ mesh_pc' = "written"
  /\ UNCHANGED <<mesh_src, mesh_json, mesh_out>>

\* ... and MeshData::ToJson writes its description
MeshDescribe ==
  /\ mesh_pc = "written"
  /\ mesh_json' = MeshToJson(EmptyObj, mesh_src)
  /\ mesh_pc' = "described"
  /\ UNCHANGED <<mesh_src, mesh_bytes, mesh_out>>

\* the mesh is loaded: MeshData::FromDolphinMesh reads the file into a
\* fresh MeshData
MeshRead ==
  /\ mesh_pc = "described"
  /\ mesh_out' = FromDolphinMesh(mesh_bytes, mesh_out)
  /\ mesh_pc' = "read"
  /\ UNCHANGED <<mesh_src, mesh_bytes, mesh_json>>

\* ... and MeshData::FromJson reads the description into it
MeshParse ==
  /\ mesh_pc = "read"
  /\ mesh_out' = MeshFromJson(mesh_json, mesh_out).data
  /\ mesh_pc' = "loaded"
  /\ UNCHANGED <<mesh_src, mesh_bytes, mesh_json>>

InitMesh == MatIdle /\ ShIdle /\ MeshInit /\ RestIdle
NextMesh ==
  \/ MeshWrite /\ UNCHANGED <<matVars, shVars, restVars>>
  \/ MeshDescribe /\ UNCHANGED <<matVars, shVars, restVars>>
  \/ MeshRead /\ UNCHANGED <<matVars, shVars, restVars>>
  \/ MeshParse /\ UNCHANGED <<matVars, shVars, restVars>>
SpecMesh == InitMesh /\ [][NextMesh]_vars

---------------------------------------------------------------------------
(* Claims about the mesh codec, checked under SpecMesh.                    *)

\* C2 as stated: FromDolphinMesh applied to the bytes of ToDolphinMesh(d)
\* yields a MeshData equal to d, chunk fields and material mapping.
C2_RoundTripWithMapping ==
  mesh_pc = "read" => mesh_out = mesh_src

\* C2, amended: FromDolphinMesh applied to the bytes of ToDolphinMesh(d)
\* yields the chunks of d, equal field for field and in order, and leaves
\* the material mapping of its output as it was (empty); the mapping of d
\* comes back once MeshData::FromJson has read what MeshData::ToJson wrote.
C2_RoundTripChunks ==
  /\ mesh_pc = "read" =>
       /\ mesh_out.m_mesh_chunks = mesh_src.m_mesh_chunks
       /\ mesh_out.m_mesh_material_to_material_asset_id = EmptyMapping
  /\ mesh_pc = "loaded" => mesh_out = mesh_src

\* a mesh with two chunks, vertices, indices, a material name and a
\* mapped material has been written and read back
C2_Witness ==
  /\ mesh_pc = "read"
  /\ Len(mesh_src.m_mesh_chunks) = 2
  /\ \E k \in DOMAIN mesh_src.m_mesh_chunks :
       LET chunk == mesh_src.m_mesh_chunks[k]
       IN  chunk.num_vertices > 0 /\ chunk.num_indices > 0
             /\ chunk.material_name # <<>>
  /\ DOMAIN mesh_src.m_mesh_material_to_material_asset_id # {}

---------------------------------------------------------------------------
(* The rewritten text per instance.                                        *)

\* text.substr(i, n), cut at the end of the text
Ahead(text, i, n) ==
  SubSeq(text, i + 1, IF i + n <= Len(text) THEN i + n ELSE Len(text))

\* the first brace of the text from index i on, or its size
NextBrace(text, i) ==
  LET braces == {q \in i..(Len(text) - 1) : text[q + 1] \in {"{", "}"}}
  IN  IF braces = {} THEN Len(text)
      ELSE CHOOSE q \in braces : \A r \in braces : q <= r

\* fmt::format(custom_shader, index) of the shader generator: "{0}" is the
\* index, "{{" and "}}" are the braces
RECURSIVE Instanced(_, _, _)
Instanced(text, index, i) ==
  LET b == NextBrace(text, i)
      plain == Substr(text, i, b - i)
  IN  IF b >= Len(text) THEN plain
      ELSE IF Ahead(text, b, 3) = <<"{", "0", "}">>
        THEN plain \o FormatNumber(index) \o Instanced(text, index, b + 3)
      ELSE IF Ahead(text, b, 2) \in {<<"{", "{">>, <<"}", "}">>}
        THEN plain \o <<text[b + 1]>> \o Instanced(text, index, b + 2)
      ELSE plain \o <<text[b + 1]>> \o Instanced(text, index, b + 1)

\* The names a text defines at depth 0, read as the language reads it:
\* comments are no text, a '#define' line defines its name, a name before
\* '(' is a function and a name before '=' a global.  `last` is the last
\* identifier seen at depth 0.
RECURSIVE DefinedAtDepth0(_, _, _, _)
DefinedAtDepth0(text, i, depth, last) ==
  IF i >= Len(text) THEN {}
  ELSE LET c == text[i + 1] IN
    IF Ahead(text, i, 2) = <<"/", "/">>
      THEN DefinedAtDepth0(text, FindChar(text, i, "\n") + 1, depth, last)
    ELSE IF Ahead(text, i, 2) = <<"/", "*">>
      THEN LET close == Find(text, <<"*", "/">>, i + 2)
           IN  IF close = -1 THEN {}
               ELSE DefinedAtDepth0(text, close + 2, depth, last)
    ELSE IF c = "{" THEN DefinedAtDepth0(text, i + 1, depth + 1, last)
    ELSE IF c = "}" THEN DefinedAtDepth0(text, i + 1, depth - 1, last)
    ELSE IF depth > 0 THEN DefinedAtDepth0(text, i + 1, depth, last)
    ELSE IF c = "#"
      THEN LET end == IdentifierEnd(text, i + 1)
               start == SkipSpaces(text, end)
               nend == IdentifierEnd(text, start)
               eol == FindChar(text, i, "\n")
           IN  (IF Substr(text, i + 1, end - i - 1) = W_define
                  THEN {Substr(text, start, nend - start)} ELSE {})
                 \cup DefinedAtDepth0(text, eol + 1, depth, last)
    ELSE IF c \in Letters \/ c = "_"
      THEN LET end == IdentifierEnd(text, i)
           IN  DefinedAtDepth0(text, end, depth, Substr(text, i, end - i))
    ELSE IF c \in {"(", "="}
      THEN {last} \cup DefinedAtDepth0(text, i + 1, depth, last)
    ELSE DefinedAtDepth0(text, i + 1, depth, last)

\* C11: the texts generated from one source for instance 0 and for
\* instance 1 share no top-level identifier: no function, assigned global
\* or #define name defined at depth 0 of one is defined at depth 0 of the
\* other.
C11_InstancesDisjoint ==
  sh_pc = "drawn" =>
    DefinedAtDepth0(Instanced(sh_code, 0, 0), 0, 0, <<>>)
      \cap DefinedAtDepth0(Instanced(sh_code, 1, 0), 0, 0, <<>>) = {}

\* a source with top-level definitions and a texture binding has been
\* rewritten, and both instances define names
C11_Witness ==
  /\ sh_pc = "drawn"
  /\ TopLevelDefined(sh_items) # {}
  /\ sh_names # <<>>
  /\ DefinedAtDepth0(Instanced(sh_code, 0, 0), 0, 0, <<>>) # {}
  /\ DefinedAtDepth0(Instanced(sh_code, 1, 0), 0, 0, <<>>) # {}

---------------------------------------------------------------------------
(* The custom pipeline action: OnTextureCreate and OnDrawStarted of one    *)
(* CustomPipelineAction over the assets of the loader.                     *)

\* Reloads of assets in one run.
MaxLoads == 2

\* an asset of the loader: GetData() is null until m_loaded, and
\* GetLastLoadedTime() is the time of the last load
Asset(loaded, data, time) == [loaded |-> loaded, data |-> data, time |-> time]

\* PixelShaderData: m_properties (a map from code name to the property's
\* type) and m_shader_source
PixelShaderData(properties, source) ==
  [m_properties |-> properties, m_shader_source |-> source]
NoShaderData == PixelShaderData(<<>>, <<>>)

\* a game texture asset: LoadGameTexture's result (null when `asset` is
\* false), its data and the size of level 0 of slice 0
Texture(asset, loaded, levels, width, height) ==
  [asset |-> asset, loaded |-> loaded, levels |-> levels,
   width |-> width, height |-> height]
TextureLibrary ==
  [id \in {"tex1", "tex2", "tex3"} |->
     CASE id = "tex1" -> Texture(TRUE, TRUE, TRUE, 4, 4)
       [] id = "tex2" -> Texture(TRUE, TRUE, TRUE, 8, 8)
       [] OTHER -> Texture(FALSE, FALSE, FALSE, 0, 0)]

\* the members of the action and of its one pass
PipelineAction(valid, material, shader, material_time, shader_time, shader_code, material_code, material_data, names, textures) ==
  [m_valid |-> valid, m_pixel_material |-> material, m_pixel_shader |-> shader,
   material_write_time |-> material_time, shader_write_time |-> shader_time,
   m_last_generated_shader_code |-> shader_code,
   m_last_generated_material_code |-> material_code,
   m_material_data |-> material_data,
   m_texture_code_names |-> names, m_game_textures |-> textures]

\* m_material_data.resize(n)
Resized(buffer, n) ==
  [k \in 1..n |-> IF k <= Len(buffer) THEN buffer[k] ELSE 0]

\* the bytes `written` stored at the cursor of the buffer; what lies past
\* the end of the buffer is not kept
Stored(buffer, cursor, written) ==
  [k \in 1..Len(buffer) |->
     IF k > cursor /\ k <= cursor + Len(written) THEN written[k - cursor]
     ELSE buffer[k]]

\* The property loop of OnTextureCreate (lines 439-514) from `index` on.
\* st: the cursor into m_material_data, the buffer, main_texture_offset
\* (-1: none), has_shared_texture, game_assets, and how the loop ended:
\* "done", "invalid" (m_valid = false; return) or "overrun" (a write past
\* the end of m_material_data).
RECURSIVE PropertyLoop(_, _, _, _)
PropertyLoop(properties, shader_properties, index, st) ==
  IF index >= Len(properties) THEN st
  ELSE LET property == properties[index + 1]
           next(s) == PropertyLoop(properties, shader_properties, index + 1, s)
       IN
    IF property.m_code_name \notin DOMAIN shader_properties
      THEN [st EXCEPT !.end = "invalid"]
    ELSE LET shader_type == shader_properties[property.m_code_name] IN
      IF property.m_type = "TextureAsset"
        THEN IF shader_type \notin {"SamplerArrayShared_Main",
                                    "SamplerArrayShared_Additional", "Sampler2D"}
               THEN [st EXCEPT !.end = "invalid"]
             ELSE IF shader_type = "Sampler2D" THEN next(st)
             ELSE LET marked ==
                        IF shader_type = "SamplerArrayShared_Main"
                          THEN [st EXCEPT !.main = index]
                          ELSE [st EXCEPT !.shared = TRUE]
                  IN  IF ~HasValue(property)
                        THEN next([marked EXCEPT !.game_assets = Append(@, "")])
                      ELSE IF property.m_value.k # "AssetID" THEN next(marked)
                      ELSE IF property.m_value.v = ""
                        THEN next([marked EXCEPT !.game_assets = Append(@, "")])
                      ELSE IF TextureLibrary[property.m_value.v].asset
                        THEN next([marked EXCEPT
                                     !.game_assets = Append(@, property.m_value.v)])
                      ELSE next(marked)
      ELSE IF ~HasValue(property) THEN next(st)
      ELSE LET written == WriteToMemory(property)
           IN  IF st.cursor + Len(written) > Len(st.buffer)
                 THEN [st EXCEPT !.end = "overrun",
                                 !.buffer = Stored(@, st.cursor, written)]
                 ELSE next([st EXCEPT !.buffer = Stored(@, st.cursor, written),
                                      !.cursor = @ + Len(written)])

\* lines 516-640 of OnTextureCreate: what follows the property loop.
\* The result: m_valid, m_game_textures, m_texture_code_names and how the
\* call ended; "out_of_range" is the read of pass.m_game_textures at an
\* index it does not have.
TextureTail(properties, main, shared, game_assets) ==
  LET result(valid, names, end) ==
        [valid |-> valid, textures |-> game_assets, names |-> names, end |-> end]
      others == {k \in 0..(Len(game_assets) - 1) : k # main}
      bad(k) == LET t == TextureLibrary[game_assets[k + 1]]
                    m == TextureLibrary[game_assets[main + 1]]
                IN  \/ ~t.loaded
                    \/ ~t.levels
                    \/ t.width # m.width \/ t.height # m.height
      with_asset == {k \in others : game_assets[k + 1] # ""}
      OtherNames[k \in 0..Len(game_assets)] ==
        IF k = 0 THEN <<>>
        ELSE IF (k - 1) \in with_asset
          THEN Append(OtherNames[k - 1], properties[k].m_code_name)
          ELSE OtherNames[k - 1]
  IN  IF main = -1 THEN result(TRUE, <<>>, "ok")
      ELSE IF main >= Len(game_assets) THEN result(TRUE, <<>>, "out_of_range")
      ELSE IF game_assets[main + 1] = "" THEN result(TRUE, <<>>, "ok")
      ELSE IF ~TextureLibrary[game_assets[main + 1]].loaded
        THEN result(FALSE, <<>>, "invalid")
      ELSE IF ~TextureLibrary[game_assets[main + 1]].levels
        THEN result(FALSE, <<>>, "invalid")
      ELSE IF \E k \in with_asset : bad(k) THEN result(FALSE, <<>>, "invalid")
      ELSE result(TRUE,
                  <<properties[main + 1].m_code_name>> \o OtherNames[Len(game_assets)],
                  "ok")

\* a variant that recomputes on every call
MustRecomputeAlways(self, material, material_data) == TRUE

\* lines 401-404: whether OnTextureCreate recomputes the declaration text
\* and the buffer size
MustRecompute(self, material, material_data) ==
  \/ self.m_pixel_shader = ""
  \/ material.time > self.material_write_time
  \/ material_data.shader_asset # self.m_pixel_shader

\* lines 428-432: the count check ahead of the property loop
RejectsCount(shader_properties, properties) ==
  Cardinality(DOMAIN shader_properties) # Len(properties)

\* CustomPipelineAction::OnTextureCreate with its arguments present and
\* one pass configured for the material asset `config`: the action afterwards, whether it recomputed, and
\* how the call ended ("ok", "invalid", "overrun", "out_of_range")
OnTextureCreate(self, config, materials, shaders) ==
  LET held == IF self.m_pixel_material = "" \/ config # self.m_pixel_material
                THEN [self EXCEPT !.m_pixel_material = config]
                ELSE self
      material == materials[held.m_pixel_material]
      material_data == material.data
      recompute == MustRecompute(held, material, material_data)
      layout ==
        IF recompute
          THEN [held EXCEPT
                  !.m_last_generated_shader_code = <<>>,
                  !.m_last_generated_material_code =
                     Flatten([k \in DOMAIN material_data.properties |->
                                WriteAsShaderCode(material_data.properties[k])]),
                  !.m_pixel_shader = material_data.shader_asset,
                  !.shader_write_time = shaders[material_data.shader_asset].time,
                  !.material_write_time = material.time,
                  !.m_material_data =
                     Resized(@, SumSeq([k \in DOMAIN material_data.properties |->
                                          GetMemorySize(material_data.properties[k])]))]
          ELSE held
      shader == shaders[layout.m_pixel_shader]
      loop == PropertyLoop(material_data.properties, shader.data.m_properties, 0,
                           [cursor |-> 0, buffer |-> layout.m_material_data,
                            main |-> -1, shared |-> FALSE, game_assets |-> <<>>,
                            end |-> "done"])
      written == [layout EXCEPT !.m_material_data = loop.buffer,
                                !.m_texture_code_names = <<>>]
      tail == TextureTail(material_data.properties, loop.main, loop.shared,
                          loop.game_assets)
      out(s, valid, did, end) ==
        [self |-> [s EXCEPT !.m_valid = valid], recomputed |-> did, end |-> end]
  IN  IF ~material.loaded THEN out(held, FALSE, FALSE, "invalid")
      ELSE IF ~shader.loaded THEN out(layout, FALSE, recompute, "invalid")
      ELSE IF RejectsCount(shader.data.m_properties, material_data.properties)
        THEN out(layout, FALSE, recompute, "invalid")
      ELSE IF loop.end = "invalid" THEN out(written, FALSE, recompute, "invalid")
      ELSE IF loop.end = "overrun" THEN out(written, TRUE, recompute, "overrun")
      ELSE IF loop.shared /\ loop.main = -1
        THEN out(written, FALSE, recompute, "invalid")
      ELSE out([written EXCEPT !.m_game_textures = tail.textures,
                               !.m_texture_code_names = tail.names],
               tail.valid, recompute, tail.end)


\* the characters of a code name
NameChars(name) ==
  IF name = "count" THEN <<"c", "o", "u", "n", "t">> ELSE <<"t", "i", "n", "t">>

\* lines 319-352 of OnDrawStarted: the texts m_last_generated_shader_code
\* may hold after the rewrite of `shader_source`
GeneratedShaderCode(shader_source, code_names, texture_unit) ==
  LET names == [k \in DOMAIN code_names |-> NameChars(code_names[k])]
      color_shader_data == EntryRenamed(shader_source)
  IN  { WriteDefines(names, texture_unit, 0)
          \o RenameTextures(RenameConflicts(color_shader_data, global_conflicts),
                            names, 1) :
        global_conflicts \in UNION { GlobalConflicts(color_shader_data, before) :
                                     before \in BytesBefore } }

\* a variant that draws whether or not the action is valid
DrawsAlways(self) == self.m_pixel_shader # ""

\* lines 301-311 of OnDrawStarted: the early returns ahead of the pass
Draws(self) == self.m_valid /\ self.m_pixel_shader # ""

\* the pixel shader assets and the material files the loader is tried with
ShaderIds == {"shader1", "shader2"}
MaterialIds == {"material1", "material2"}
PlSourceA == RenderAll(<<Item("func", W_custom_main, <<>>, EmptyBody)>>)
PlSourceB == RenderAll(<<Item("global", N_TEMP, <<>>, EmptyBody)>>)
PlShaders ==
  { PixelShaderData([n \in {"count", "tint"} |->
                       IF n = "count" THEN "Int" ELSE "Float"], PlSourceA),
    PixelShaderData([n \in {"tint"} |-> "SamplerArrayShared_Main"], PlSourceA),
    PixelShaderData([n \in {"count", "tint"} |->
                       IF n = "count" THEN "Int" ELSE "SamplerArrayShared_Main"],
                    PlSourceB),
    PixelShaderData([n \in {"count", "tint"} |->
                       IF n = "count" THEN "SamplerArrayShared_Additional"
                       ELSE "SamplerArrayShared_Main"],
                    PlSourceA) }
P_count == MaterialProperty("count", "Int", VS32(7))
P_tint == MaterialProperty("tint", "Float", VFloat(3))
P_tex == MaterialProperty("tint", "TextureAsset", VAssetID("tex1"))
\* a main texture whose LoadGameTexture returns no asset, and an
\* additional texture
P_missing == MaterialProperty("tint", "TextureAsset", VAssetID("tex3"))
P_additional == MaterialProperty("count", "TextureAsset", VAssetID("tex2"))
PlMaterials ==
  { MaterialData(<<P_count, P_tint>>, "shader1"),
    MaterialData(<<P_tint, P_count>>, "shader1"),
    MaterialData(<<P_tint, P_tint>>, "shader1"),
    MaterialData(<<P_count>>, "shader2"),
    MaterialData(<<P_tex>>, "shader1"),
    MaterialData(<<P_count, P_tex>>, "shader1"),
    MaterialData(<<P_missing, P_additional>>, "shader1") }

Unwritten == [written |-> FALSE]
When(condition, name) == IF condition THEN {name} ELSE {}
\* a call, with the cached time it found and the reasons it had to recompute
CallWith(op, end, recomputed, cached, causes) ==
  [op |-> op, end |-> end, recomputed |-> recomputed, cached |-> cached,
   causes |-> causes]
Call(op, end, recomputed, cached) == CallWith(op, end, recomputed, cached, {})
\* an OnDrawStarted, with the call it follows
DrawCall(after) ==
  [op |-> "draw", end |-> "ok", recomputed |-> FALSE, cached |-> 0, causes |-> {},
   after |-> after]
\* an OnTextureCreate, with the properties of the material data it read
CreateCall(end, recomputed, cached, causes, snapshot) ==
  [op |-> "create", end |-> end, recomputed |-> recomputed, cached |-> cached,
   causes |-> causes, snapshot |-> snapshot]

PlInit ==
  /\ pl_clock = 1
  /\ pl_config = "material1"
  /\ \E valid \in BOOLEAN :
       pl_self = PipelineAction(valid, "", "", 0, 0, <<>>, <<>>, <<>>, <<>>, <<>>)
  /\ \E first \in {Asset(FALSE, DefaultData, 0),
                     Asset(TRUE, MaterialData(<<P_count>>, "shader2"), 1)} :
       pl_materials = [id \in MaterialIds |->
                         IF id = "material1" THEN first
                         ELSE Asset(TRUE, MaterialData(<<P_count, P_tint>>,
                                                       "shader1"), 1)]
  /\ \E first \in {Asset(FALSE, NoShaderData, 0),
                     Asset(TRUE, PixelShaderData([n \in {"count", "tint"} |->
                                                    IF n = "count" THEN "Int" ELSE "Float"],
                                                 PlSourceA), 1)} :
       pl_shaders = [id \in ShaderIds |->
                       IF id = "shader1" THEN first
                       ELSE Asset(TRUE, PixelShaderData([n \in {"count"} |-> "Int"],
                                                        PlSourceB), 1)]
  /\ pl_out = Unwritten
  /\ pl_last = Call("none", "ok", FALSE, 0)
  /\ pl_rejected = FALSE

\* the loader thread reloads a material file
PlLoadMaterial ==
  /\ pl_last.op # "idle"
  /\ pl_clock < 1 + MaxLoads
  /\ \E d \in PlMaterials :
       pl_materials' = [pl_materials EXCEPT
                          !["material1"] = Asset(TRUE, d, pl_clock + 1)]
  /\ pl_clock' = pl_clock + 1
  /\ pl_last' = Call("load", "ok", FALSE, 0)
  /\ UNCHANGED <<pl_self, pl_config, pl_shaders, pl_out, pl_rejected>>

\* the loader thread reloads a pixel shader file
PlLoadShader ==
  /\ pl_last.op # "idle"
  /\ pl_clock < 1 + MaxLoads
  /\ \E d \in PlShaders :
       pl_shaders' = [pl_shaders EXCEPT !["shader1"] = Asset(TRUE, d, pl_clock + 1)]
  /\ pl_clock' = pl_clock + 1
  /\ pl_last' = Call("load", "ok", FALSE, 0)
  /\ UNCHANGED <<pl_self, pl_config, pl_materials, pl_out, pl_rejected>>

\* CustomPipelineAction::DrawImGui: the editor picks another material asset
\* for the pass
PlDrawImGui ==
  /\ pl_last.op # "idle"
  /\ \E id \in MaterialIds \ {pl_config} : pl_config' = id
  /\ pl_last' = Call("load", "ok", FALSE, 0)
  /\ UNCHANGED <<pl_self, pl_materials, pl_shaders, pl_clock, pl_out, pl_rejected>>

\* what the pipeline action finds as its OnTextureCreate is entered
PlCauses ==
  When(pl_materials[pl_config].time > pl_self.material_write_time, "newer")
    \cup When(pl_self.m_pixel_shader = "", "no shader")
    \cup When(pl_materials[pl_config].data.shader_asset # pl_self.m_pixel_shader,
              "other shader")

\* CustomPipelineAction::OnTextureCreate; a read outside m_game_textures or
\* a write outside m_material_data leaves m_valid to the build
PlOnTextureCreate ==
  /\ pl_last.op # "idle"
  /\ LET r == OnTextureCreate(pl_self, pl_config, pl_materials, pl_shaders)
     IN  /\ \E valid \in BOOLEAN :
              /\ r.end \in {"ok", "invalid"} => valid = r.self.m_valid
              /\ pl_self' = [r.self EXCEPT !.m_valid = valid]
              /\ pl_rejected' = ~valid
         /\ pl_last' =
              CreateCall(r.end, r.recomputed, pl_self.material_write_time,
                         PlCauses, pl_materials[pl_config].data.properties)
  /\ UNCHANGED <<pl_config, pl_materials, pl_shaders, pl_clock, pl_out>>

\* CustomPipelineAction::OnTextureCreate while the loader thread reloads the
\* material of the pass between GetData() (line 393) and the
\* GetLastLoadedTime() of lines 402 and 410: the call holds the data of the
\* load before and reads the time of the new one
PlOnTextureCreateDuringLoad ==
  /\ pl_last.op # "idle"
  /\ pl_clock < 1 + MaxLoads
  /\ pl_config = "material1"
  /\ pl_materials[pl_config].loaded
  /\ \E r \in {OnTextureCreate(pl_self, pl_config,
                                [pl_materials EXCEPT ![pl_config].time = pl_clock + 1],
                                pl_shaders)} :
       /\ \E valid \in BOOLEAN :
            /\ r.end \in {"ok", "invalid"} => valid = r.self.m_valid
            /\ pl_self' = [r.self EXCEPT !.m_valid = valid]
            /\ pl_rejected' = ~valid
       /\ pl_last' =
            CreateCall(r.end, r.recomputed, pl_self.material_write_time,
                       PlCauses \cup {"newer"}, pl_materials[pl_config].data.properties)
  /\ \E d \in PlMaterials :
       pl_materials' = [pl_materials EXCEPT ![pl_config] = Asset(TRUE, d, pl_clock + 1)]
  /\ pl_clock' = pl_clock + 1
  /\ UNCHANGED <<pl_config, pl_shaders, pl_out>>

\* CustomPipelineAction::OnDrawStarted with a fresh draw_started
PlOnDrawStarted ==
  /\ pl_last.op # "idle"
  /\ LET shader == pl_shaders[pl_self.m_pixel_shader]
     IN  IF Draws(pl_self) /\ shader.loaded
           THEN \E texture_unit \in TextureUnits :
                  \E code \in IF pl_self.m_last_generated_shader_code = <<>>
                                THEN GeneratedShaderCode(shader.data.m_shader_source,
                                                         pl_self.m_texture_code_names,
                                                         texture_unit)
                                ELSE {pl_self.m_last_generated_shader_code} :
                    /\ pl_self' = [pl_self EXCEPT !.m_last_generated_shader_code = code]
                    /\ pl_out' = [written |-> TRUE, custom_shader |-> code,
                                  material_uniform_block |->
                                    pl_self.m_last_generated_material_code,
                                  material_uniform_buffer |-> pl_self.m_material_data]
           ELSE /\ pl_out' = Unwritten
                /\ UNCHANGED pl_self
  /\ pl_last' = DrawCall(pl_last.op)
  /\ UNCHANGED <<pl_config, pl_materials, pl_shaders, pl_clock, pl_rejected>>

InitPipeline ==
  MatIdle /\ ShIdle /\ MeshIdle /\ PlInit /\ LdIdle /\ CmIdle /\ GlIdle /\ ToolIdle
NextPipeline ==
  \/ PlLoadMaterial /\ UNCHANGED <<matVars, shVars, meshVars, ldVars, cmVars, glVars, toolVars>>
  \/ PlLoadShader /\ UNCHANGED <<matVars, shVars, meshVars, ldVars, cmVars, glVars, toolVars>>
  \/ PlDrawImGui /\ UNCHANGED <<matVars, shVars, meshVars, ldVars, cmVars, glVars, toolVars>>
  \/ PlOnTextureCreate /\ UNCHANGED <<matVars, shVars, meshVars, ldVars, cmVars, glVars, toolVars>>
  \/ PlOnTextureCreateDuringLoad /\ UNCHANGED <<matVars, shVars, meshVars, ldVars, cmVars, glVars, toolVars>>
  \/ PlOnDrawStarted /\ UNCHANGED <<matVars, shVars, meshVars, ldVars, cmVars, glVars, toolVars>>
SpecPipeline == InitPipeline /\ [][NextPipeline]_vars


---------------------------------------------------------------------------
(* Composition of a material with its shader.                              *)

\* the code names in the order a map keyed by code name iterates them
CodeNameOrder == <<"count", "tint">>
\* the code names a shader declares, in the order of m_properties
DeclaredNames(shader_properties) ==
  SelectSeq(CodeNameOrder, LAMBDA n : n \in DOMAIN shader_properties)
\* the material's properties name the shader's, one to one and in order
Matches(shader_properties, properties) ==
  [k \in DOMAIN properties |-> properties[k].m_code_name]
    = DeclaredNames(shader_properties)
\* the last call was an OnTextureCreate that had the data of the material
\* and of its shader in its hands
PlComposed ==
  /\ pl_last.op = "create"
  /\ pl_last.end \in {"ok", "invalid"}
  /\ pl_materials[pl_self.m_pixel_material].loaded
  /\ pl_shaders[pl_self.m_pixel_shader].loaded

\* C12: an OnTextureCreate whose material does not name the properties of
\* its shader one to one and in the same order leaves m_valid false
C12_MismatchRejected ==
  (PlComposed /\ ~Matches(pl_shaders[pl_self.m_pixel_shader].data.m_properties,
                          pl_materials[pl_self.m_pixel_material].data.properties))
    => ~pl_self.m_valid
\* an OnTextureCreate over a material with as many properties as its shader
\* declares, under other names or in another order
C12_Witness ==
  /\ PlComposed
  /\ Len(pl_materials[pl_self.m_pixel_material].data.properties)
       = Cardinality(DOMAIN pl_shaders[pl_self.m_pixel_shader].data.m_properties)
  /\ ~Matches(pl_shaders[pl_self.m_pixel_shader].data.m_properties,
              pl_materials[pl_self.m_pixel_material].data.properties)


\* C13: once an OnTextureCreate has left m_valid false, every
\* OnDrawStarted up to the next OnTextureCreate that completes without
\* rejecting returns with custom_pixel_shader and material_uniform_buffer
\* unwritten
C13_InvalidStaysUnwritten ==
  (pl_last.op = "draw" /\ pl_rejected) => ~pl_out.written
\* a draw after a rejection by an action that holds a loaded pixel shader,
\* so that m_valid alone holds the draw back
C13_Witness ==
  /\ pl_last.op = "draw"
  /\ pl_rejected
  /\ pl_self.m_pixel_shader # ""
  /\ pl_shaders[pl_self.m_pixel_shader].loaded
  /\ pl_self.m_last_generated_material_code # <<>>


---------------------------------------------------------------------------
(* MaterialAsset::LoadImpl and MeshAsset::LoadImpl on the loader thread,   *)
(* with a reader of the asset on another thread.                           *)

AssetKinds == {"material", "mesh"}
\* std::make_shared<MaterialData>() / std::make_shared<MeshData>()
MakeShared(kind) == IF kind = "material" THEN DefaultData ELSE FreshMeshData
\* the values the library is asked to load
LdTargets(kind) ==
  IF kind = "material"
    THEN {MaterialData(<<P_count>>, "shader1"),
          MaterialData(<<P_count, P_tint>>, "shader2")}
    ELSE {d \in ImportedMeshData :
            /\ Len(d.m_mesh_chunks) = 1
            /\ d.m_mesh_chunks[1].num_vertices = 2
            /\ d.m_mesh_chunks[1].material_name = M_m
            /\ DOMAIN d.m_mesh_material_to_material_asset_id = {M_m}}
\* the members of the data object in the order the library fills them
LdParts == 2
\* *potential_data after the library has written `parts` of its members
Built(kind, target, parts) ==
  IF parts = 0 THEN MakeShared(kind)
  ELSE IF parts >= LdParts THEN target
  ELSE IF kind = "material"
    THEN [MakeShared(kind) EXCEPT !.properties = target.properties]
    ELSE [MakeShared(kind) EXCEPT !.m_mesh_chunks = target.m_mesh_chunks]

\* a variant that publishes whatever the library left behind
DiscardsNever(bytes_loaded) == FALSE
\* `if (loaded_info.m_bytes_loaded == 0) return {};`
Discards(bytes_loaded) == bytes_loaded = 0

\* a variant of the reader that does not wait for the lock
AcquirableAlways(lock) == TRUE
\* std::lock_guard lk(m_data_lock) can be entered
Acquirable(lock) == lock = "free"

\* m_loaded and m_data with the object m_data points to
Snapshot(loaded, data, heap) ==
  [loaded |-> loaded, data |-> data,
   value |-> IF data = 0 THEN <<>> ELSE heap[data].value]

LdInit ==
  /\ ld_kind \in AssetKinds
  /\ ld_pc = "idle" /\ ld_heap = <<>> /\ ld_temp = 0 /\ ld_target = <<>>
  /\ ld_bytes = 0 /\ ld_loaded = FALSE /\ ld_data = 0 /\ ld_lock = "free"
  /\ ld_before = Snapshot(FALSE, 0, <<>>)
  /\ ld_published = {Snapshot(FALSE, 0, <<>>)}
  /\ ld_loads = 0
  /\ rd_pc = "idle" /\ rd_seen = [loaded |-> FALSE, data |-> 0]

\* auto potential_data = std::make_shared<...>(); the library is called
LdMakeShared ==
  /\ ld_kind \in AssetKinds
  /\ ld_pc \in {"idle", "returned"}
  /\ ld_loads < MaxLoads
  /\ ld_loads' = ld_loads + 1
  /\ ld_heap' = Append(ld_heap, [value |-> MakeShared(ld_kind), parts |-> 0])
  /\ ld_temp' = Len(ld_heap) + 1
  /\ ld_target' \in LdTargets(ld_kind)
  /\ ld_before' = Snapshot(ld_loaded, ld_data, ld_heap)
  /\ ld_pc' = "loading"
  /\ UNCHANGED <<ld_kind, ld_bytes, ld_loaded, ld_data, ld_lock, ld_published,
                 rd_pc, rd_seen>>

\* the library writes the next member of *potential_data
LdLibraryWrites ==
  /\ ld_pc = "loading"
  /\ ld_heap[ld_temp].parts < LdParts
  /\ ld_heap' = [ld_heap EXCEPT ![ld_temp] =
                   [value |-> Built(ld_kind, ld_target, @.parts + 1),
                    parts |-> @.parts + 1]]
  /\ UNCHANGED <<ld_kind, ld_pc, ld_temp, ld_target, ld_bytes, ld_loaded, ld_data,
                 ld_lock, ld_before, ld_published, ld_loads, rd_pc, rd_seen>>

\* the library returns: zero bytes from wherever it gave up, or the size
\* of the file once every member is written
LdLibraryReturns ==
  /\ ld_pc = "loading"
  /\ \/ ld_bytes' = 0
     \/ ld_heap[ld_temp].parts = LdParts /\ ld_bytes' = 8
  /\ ld_pc' = "loaded"
  /\ UNCHANGED <<ld_kind, ld_heap, ld_temp, ld_target, ld_loaded, ld_data, ld_lock,
                 ld_before, ld_published, ld_loads, rd_pc, rd_seen>>

\* return {}; potential_data goes out of scope
LdReturnsEmpty ==
  /\ ld_pc = "loaded"
  /\ Discards(ld_bytes)
  /\ ld_pc' = "returned"
  /\ ld_temp' = 0
  /\ UNCHANGED <<ld_kind, ld_heap, ld_target, ld_bytes, ld_loaded, ld_data, ld_lock,
                 ld_before, ld_published, ld_loads, rd_pc, rd_seen>>

\* std::lock_guard lk(m_data_lock);
LdLocks ==
  /\ ld_pc = "loaded"
  /\ ~Discards(ld_bytes)
  /\ ld_lock = "free"
  /\ ld_lock' = "loader"
  /\ ld_pc' = "locked"
  /\ UNCHANGED <<ld_kind, ld_heap, ld_temp, ld_target, ld_bytes, ld_loaded, ld_data,
                 ld_before, ld_published, ld_loads, rd_pc, rd_seen>>

\* m_loaded = true;
LdSetsLoaded ==
  /\ ld_pc = "locked"
  /\ ld_loaded' = TRUE
  /\ ld_pc' = "flagged"
  /\ UNCHANGED <<ld_kind, ld_heap, ld_temp, ld_target, ld_bytes, ld_data, ld_lock,
                 ld_before, ld_published, ld_loads, rd_pc, rd_seen>>

\* m_data = std::move(potential_data); the guard is released
LdMoves ==
  /\ ld_pc = "flagged"
  /\ ld_data' = ld_temp
  /\ ld_temp' = 0
  /\ ld_lock' = "free"
  /\ ld_published' = ld_published \cup {Snapshot(ld_loaded, ld_temp, ld_heap)}
  /\ ld_pc' = "returned"
  /\ UNCHANGED <<ld_kind, ld_heap, ld_target, ld_bytes, ld_loaded, ld_before,
                 ld_loads, rd_pc, rd_seen>>

\* the reader takes m_data_lock
RdLocks ==
  /\ ld_kind \in AssetKinds
  /\ rd_pc = "idle"
  /\ Acquirable(ld_lock)
  /\ ld_lock' = (IF ld_lock = "free" THEN "reader" ELSE ld_lock)
  /\ rd_pc' = "locked"
  /\ UNCHANGED <<ld_kind, ld_pc, ld_heap, ld_temp, ld_target, ld_bytes, ld_loaded,
                 ld_data, ld_before, ld_published, ld_loads, rd_seen>>

\* the reader reads m_loaded
RdReadsLoaded ==
  /\ rd_pc = "locked"
  /\ rd_seen' = [rd_seen EXCEPT !.loaded = ld_loaded]
  /\ rd_pc' = "flag"
  /\ UNCHANGED <<ld_kind, ld_pc, ld_heap, ld_temp, ld_target, ld_bytes, ld_loaded,
                 ld_data, ld_lock, ld_before, ld_published, ld_loads>>

\* the reader copies m_data and lets the lock go
RdReadsData ==
  /\ rd_pc = "flag"
  /\ rd_seen' = [rd_seen EXCEPT !.data = ld_data]
  /\ ld_lock' = (IF ld_lock = "reader" THEN "free" ELSE ld_lock)
  /\ rd_pc' = "idle"
  /\ UNCHANGED <<ld_kind, ld_pc, ld_heap, ld_temp, ld_target, ld_bytes, ld_loaded,
                 ld_data, ld_before, ld_published, ld_loads>>

InitLoad ==
  MatIdle /\ ShIdle /\ MeshIdle /\ PlIdle /\ LdInit /\ CmIdle /\ GlIdle /\ ToolIdle
NextLoad ==
  \/ LdMakeShared /\ UNCHANGED <<matVars, shVars, meshVars, plVars, cmVars, glVars, toolVars>>
  \/ LdLibraryWrites /\ UNCHANGED <<matVars, shVars, meshVars, plVars, cmVars, glVars, toolVars>>
  \/ LdLibraryReturns /\ UNCHANGED <<matVars, shVars, meshVars, plVars, cmVars, glVars, toolVars>>
  \/ LdReturnsEmpty /\ UNCHANGED <<matVars, shVars, meshVars, plVars, cmVars, glVars, toolVars>>
  \/ LdLocks /\ UNCHANGED <<matVars, shVars, meshVars, plVars, cmVars, glVars, toolVars>>
  \/ LdSetsLoaded /\ UNCHANGED <<matVars, shVars, meshVars, plVars, cmVars, glVars, toolVars>>
  \/ LdMoves /\ UNCHANGED <<matVars, shVars, meshVars, plVars, cmVars, glVars, toolVars>>
  \/ RdLocks /\ UNCHANGED <<matVars, shVars, meshVars, plVars, cmVars, glVars, toolVars>>
  \/ RdReadsLoaded /\ UNCHANGED <<matVars, shVars, meshVars, plVars, cmVars, glVars, toolVars>>
  \/ RdReadsData /\ UNCHANGED <<matVars, shVars, meshVars, plVars, cmVars, glVars, toolVars>>
SpecLoad == InitLoad /\ [][NextLoad]_vars

\* C14: whatever the interleaving of LoadImpl with a reader under
\* m_data_lock, the flag and the pointer the reader has read are those of
\* one snapshot the asset held between critical sections, whose object is
\* complete and no longer written; the loader holds the lock only once
\* its value is fully built, for the assignment of m_loaded and m_data
C14_SnapshotsWhole ==
  /\ (ld_kind \in AssetKinds /\ rd_pc = "idle") =>
       /\ Snapshot(rd_seen.loaded, rd_seen.data, ld_heap) \in ld_published
       /\ rd_seen.loaded = (rd_seen.data # 0)
       /\ rd_seen.data # 0 =>
            /\ rd_seen.data # ld_temp
            /\ ld_heap[rd_seen.data].parts = LdParts
  /\ ld_lock = "loader" =>
       /\ ld_pc \in {"locked", "flagged"}
       /\ ld_heap[ld_temp].parts = LdParts
\* the reader has read the first snapshot of an asset, and the loader is
\* between the two assignments of its second LoadImpl
C14_Witness ==
  /\ rd_pc = "idle"
  /\ rd_seen.loaded /\ rd_seen.data # 0
  /\ ld_pc = "flagged"
  /\ ld_temp # rd_seen.data

\* C15: a LoadImpl whose library call reports zero bytes returns with
\* m_loaded, m_data and the object m_data points to as they were when it
\* was entered, for the material and for the mesh asset, whatever the
\* library has written into the temporary
C15_ZeroBytesNoChange ==
  (ld_pc = "returned" /\ ld_bytes = 0) =>
    Snapshot(ld_loaded, ld_data, ld_heap) = ld_before
\* a LoadImpl of a loaded asset has returned on zero bytes after the
\* library had written part of the temporary
C15_Witness ==
  /\ ld_pc = "returned" /\ ld_bytes = 0
  /\ ld_before.loaded
  /\ ld_heap[Len(ld_heap)].parts > 0


---------------------------------------------------------------------------
(* Common::Matrix44, with whole numbers for its sixteen floats.            *)

\* Matrix44::Identity()
Identity44 == [k \in 0..15 |-> IF k \in {0, 5, 10, 15} THEN 1 ELSE 0]
\* Matrix44::Translate(vec): the vector in the last column
Translate44(v) == [Identity44 EXCEPT ![3] = v[1], ![7] = v[2], ![11] = v[3]]
\* Matrix44::FromMatrix33(Matrix33::Scale(vec))
Scale44(v) ==
  [Identity44 EXCEPT ![0] = v[1], ![5] = v[2], ![10] = v[3]]
\* a * b
Multiply44(a, b) ==
  [k \in 0..15 |->
     LET r == k \div 4
         c == k % 4
     IN  a[4 * r] * b[c] + a[4 * r + 1] * b[4 + c]
           + a[4 * r + 2] * b[8 + c] + a[4 * r + 3] * b[12 + c]]

---------------------------------------------------------------------------
(* CustomMeshAction::OnDrawStarted over the mesh assets of the loader.     *)

MeshIds == {"mesh1", "mesh2"}
\* a vertex declaration by the texcoords it enables
CmDecl(enabled) == [texcoords |-> [k \in 0..7 |-> [enable |-> k \in enabled]]]
CmChunk(n, enabled, transform) ==
  MeshDataChunk(n, SampleStride, Pattern(n * SampleStride, n), 3, <<0, 1, 2>>, CmDecl(enabled), 3, 1, transform, M_m)
CmMeshData ==
  { MeshData(<<>>, ImportedMapping({})),
    MeshData(<<CmChunk(3, {0}, Identity44)>>, ImportedMapping({M_m})),
    MeshData(<<CmChunk(3, {}, Translate44(<<1, 0, 0>>)),
               CmChunk(4, {0, 2}, Scale44(<<2, 2, 2>>))>>, ImportedMapping({M_m})) }
Scales == {1, 2}

CustomMeshAction(id, asset, time, mesh_data, render_chunks, transform_changed, mesh_asset_changed, scale) ==
  [m_mesh_asset_id |-> id, m_asset |-> asset, m_cached_write_time |-> time,
   m_mesh_data |-> mesh_data, m_render_chunks |-> render_chunks,
   m_transform_changed |-> transform_changed,
   m_mesh_asset_changed |-> mesh_asset_changed, m_scale |-> scale]

\* lines 84-118: the render chunk built for one mesh chunk, with
\* m_translation and m_rotation left at zero
RenderChunk(self, mesh_chunk) ==
  [m_mesh_chunk |->
     [indices |-> mesh_chunk.indices, num_indices |-> mesh_chunk.num_indices,
      num_vertices |-> mesh_chunk.num_vertices,
      vertices |-> mesh_chunk.vertex_data,
      primitive_type |-> mesh_chunk.primitive_type,
      components_available |-> mesh_chunk.components_available,
      cull_mode |-> "None",
      transform |->
        Multiply44(Multiply44(Multiply44(Translate44(<<0, 0, 0>>), Identity44),
                              Scale44(<<self.m_scale, self.m_scale, self.m_scale>>)),
                   mesh_chunk.transform)],
   m_tex_units |->
     SelectSeq(<<0, 1, 2, 3, 4, 5, 6, 7>>,
               LAMBDA i : mesh_chunk.vertex_declaration.texcoords[i].enable)]

\* lines 76-77: whether OnDrawStarted rebuilds the render chunks
CmMustRecompute(self, asset) ==
  \/ asset.time > self.m_cached_write_time
  \/ self.m_transform_changed
  \/ self.m_mesh_asset_changed

\* CustomMeshAction::OnDrawStarted with its arguments present and
\* *current_mesh_index = index: the action afterwards, whether it rebuilt,
\* how the call ended and what it wrote
CmOnDraw(self, meshes, index) ==
  LET held == IF self.m_asset = "" \/ self.m_mesh_asset_id # self.m_asset
                THEN [self EXCEPT !.m_asset = self.m_mesh_asset_id]
                ELSE self
      asset == meshes[held.m_asset]
      mesh_data == asset.data
      recompute == CmMustRecompute(held, asset)
      built ==
        IF recompute
          THEN [held EXCEPT
                  !.m_mesh_data = mesh_data,
                  !.m_cached_write_time = asset.time,
                  !.m_render_chunks =
                     [k \in DOMAIN mesh_data.m_mesh_chunks |->
                        RenderChunk(held, mesh_data.m_mesh_chunks[k])],
                  !.m_transform_changed = FALSE,
                  !.m_mesh_asset_changed = FALSE]
          ELSE held
      out(s, did, end, written) ==
        [self |-> s, recomputed |-> did, end |-> end, out |-> written]
  IN  IF ~asset.loaded THEN out(held, FALSE, "ok", Unwritten)
      ELSE IF index >= Len(built.m_render_chunks)
              \/ index >= Len(mesh_data.m_mesh_chunks)
        THEN out(built, recompute, "out_of_range", Unwritten)
      ELSE out(built, recompute, "ok",
               [written |-> TRUE,
                mesh_chunk |-> built.m_render_chunks[index + 1].m_mesh_chunk,
                current_mesh_index |-> index + 1,
                more_data |-> index + 1 < Len(mesh_data.m_mesh_chunks)])

CmInit ==
  /\ cm_clock = 1
  /\ \E transform_changed \in BOOLEAN, mesh_asset_changed \in BOOLEAN :
       cm_self = CustomMeshAction("mesh1", "", 0, FreshMeshData, <<>>,
                                  transform_changed, mesh_asset_changed, 1)
  /\ \E first \in {Asset(FALSE, FreshMeshData, 0)}
                     \cup {Asset(TRUE, d, 1) : d \in CmMeshData} :
       cm_meshes = [id \in MeshIds |->
                      IF id = "mesh1" THEN first
                      ELSE Asset(TRUE, CHOOSE d \in CmMeshData :
                                         Len(d.m_mesh_chunks) = 1, 1)]
  /\ cm_out = Unwritten
  /\ cm_last = Call("none", "ok", FALSE, 0)

\* the loader thread reloads a mesh file
CmLoadMesh ==
  /\ cm_last.op # "idle"
  /\ cm_clock < 1 + MaxLoads
  /\ \E d \in CmMeshData :
       cm_meshes' = [cm_meshes EXCEPT !["mesh1"] = Asset(TRUE, d, cm_clock + 1)]
  /\ cm_clock' = cm_clock + 1
  /\ cm_last' = Call("load", "ok", FALSE, 0)
  /\ UNCHANGED <<cm_self, cm_out>>

\* CustomMeshAction::DrawImGui: the editor picks another mesh or another
\* scale
CmDrawImGui ==
  /\ cm_last.op # "idle"
  /\ \/ \E id \in MeshIds \ {cm_self.m_mesh_asset_id} :
          cm_self' = [cm_self EXCEPT !.m_mesh_asset_id = id,
                                     !.m_mesh_asset_changed = TRUE]
     \/ \E scale \in Scales \ {cm_self.m_scale} :
          cm_self' = [cm_self EXCEPT !.m_scale = scale,
                                     !.m_transform_changed = TRUE]
  /\ cm_last' = Call("load", "ok", FALSE, 0)
  /\ UNCHANGED <<cm_meshes, cm_clock, cm_out>>

\* what the mesh action finds as its OnDrawStarted is entered
CmCauses ==
  When(cm_meshes[cm_self.m_mesh_asset_id].time > cm_self.m_cached_write_time, "newer")
    \cup When(cm_self.m_transform_changed, "transform")
    \cup When(cm_self.m_mesh_asset_changed, "mesh")

\* the caller's draw sequence: *current_mesh_index is 0 for the first call
\* of a draw, and for a further call what the call before left there with
\* more_data true
CmInSequence(index) ==
  \/ index = 0
  \/ /\ cm_out.written /\ cm_out.more_data
     /\ cm_out.current_mesh_index = index
\* an OnDrawStarted of the mesh action, with *current_mesh_index as it was
\* entered and whether that index continues a draw sequence
MeshCall(op, end, recomputed, cached, causes, index, in_sequence) ==
  [op |-> op, end |-> end, recomputed |-> recomputed, cached |-> cached,
   causes |-> causes, index |-> index, in_sequence |-> in_sequence]

\* CustomMeshAction::OnDrawStarted; a read outside m_render_chunks either
\* ends the program or hands back whatever lies there
CmOnDrawStarted ==
  /\ cm_last.op \notin {"idle", "crashed"}
  /\ \E index \in 0..(MaxChunks - 1) :
       LET r == CmOnDraw(cm_self, cm_meshes, index)
       IN  /\ cm_self' = r.self
           /\ IF r.end = "out_of_range"
                THEN \/ /\ cm_out' = Unwritten
                        /\ cm_last' = MeshCall("crashed", r.end, r.recomputed,
                                               cm_self.m_cached_write_time,
                                               CmCauses, index, CmInSequence(index))
                     \/ /\ cm_out' = [written |-> TRUE, mesh_chunk |-> <<>>,
                                      current_mesh_index |-> index + 1,
                                      more_data |-> FALSE]
                        /\ cm_last' = MeshCall("draw", r.end, r.recomputed,
                                               cm_self.m_cached_write_time,
                                               CmCauses, index, CmInSequence(index))
                ELSE /\ cm_out' = r.out
                     /\ cm_last' = MeshCall("draw", r.end, r.recomputed,
                                            cm_self.m_cached_write_time, CmCauses,
                                            index, CmInSequence(index))
  /\ UNCHANGED <<cm_meshes, cm_clock>>

\* the two consumers of the loader's assets, one of them at a time
InitConsumers ==
  /\ MatIdle /\ ShIdle /\ MeshIdle /\ LdIdle /\ GlIdle /\ ToolIdle
  /\ \/ PlInit /\ CmIdle
     \/ PlIdle /\ CmInit
NextConsumers ==
  \/ PlLoadMaterial /\ UNCHANGED <<matVars, shVars, meshVars, ldVars, cmVars, glVars, toolVars>>
  \/ PlLoadShader /\ UNCHANGED <<matVars, shVars, meshVars, ldVars, cmVars, glVars, toolVars>>
  \/ PlDrawImGui /\ UNCHANGED <<matVars, shVars, meshVars, ldVars, cmVars, glVars, toolVars>>
  \/ PlOnTextureCreate /\ UNCHANGED <<matVars, shVars, meshVars, ldVars, cmVars, glVars, toolVars>>
  \/ PlOnTextureCreateDuringLoad /\ UNCHANGED <<matVars, shVars, meshVars, ldVars, cmVars, glVars, toolVars>>
  \/ PlOnDrawStarted /\ UNCHANGED <<matVars, shVars, meshVars, ldVars, cmVars, glVars, toolVars>>
  \/ CmLoadMesh /\ UNCHANGED <<matVars, shVars, meshVars, ldVars, plVars, glVars, toolVars>>
  \/ CmDrawImGui /\ UNCHANGED <<matVars, shVars, meshVars, ldVars, plVars, glVars, toolVars>>
  \/ CmOnDrawStarted /\ UNCHANGED <<matVars, shVars, meshVars, ldVars, plVars, glVars, toolVars>>
SpecConsumers == InitConsumers /\ [][NextConsumers]_vars

\* the time of the source asset the pipeline action holds
PlSourceTime == pl_materials[pl_self.m_pixel_material].time
\* the time of the source asset the mesh action holds
CmSourceTime == cm_meshes[cm_self.m_asset].time

\* C16 as stated: OnTextureCreate and the mesh action's OnDrawStarted
\* recompute only when the source asset's last-loaded time is strictly
\* greater than the time cached at the previous recompute, and after a
\* recompute the cached time equals the source's
C16_OnlyWhenNewer ==
  /\ (pl_last.op = "create" /\ pl_last.recomputed) =>
       /\ PlSourceTime > pl_last.cached
       /\ pl_self.material_write_time = PlSourceTime
  /\ (cm_last.op = "draw" /\ cm_last.recomputed) =>
       /\ CmSourceTime > cm_last.cached
       /\ cm_self.m_cached_write_time = CmSourceTime


\* C16, amended: the two consumers recompute only when the source asset's
\* last-loaded time is strictly greater than the cached time, or, for
\* OnTextureCreate, when the pass holds no pixel shader or the material
\* names another pixel shader than the one held, or, for the mesh
\* action, when the editor has changed the transform or the mesh; after
\* a recompute the cached time equals the source's
C16_OnlyWhenCaused ==
  /\ (pl_last.op = "create" /\ pl_last.recomputed) =>
       /\ pl_last.causes # {}
       /\ pl_self.material_write_time = PlSourceTime
  /\ (cm_last.op = "draw" /\ cm_last.recomputed) =>
       /\ cm_last.causes # {}
       /\ cm_self.m_cached_write_time = CmSourceTime
\* a recompute by either consumer for another reason than a newer source:
\* a material naming another shader, or a transform changed in the editor
C16_Witness ==
  \/ /\ pl_last.op = "create" /\ pl_last.recomputed
     /\ pl_last.causes = {"other shader"}
  \/ /\ cm_last.op = "draw" /\ cm_last.recomputed
     /\ cm_last.causes = {"transform"}


---------------------------------------------------------------------------
(* The glTF importer: MeshData::FromGLTF, ReadGLTF, ReadGLTFNodes and      *)
(* ReadGLTFMesh over a tinygltf::Model.                                    *)

\* tinygltf::Node, with whole numbers for its doubles and no rotation
Node(mesh, children, matrix, scale, translation) ==
  [mesh |-> mesh, children |-> children, matrix |-> matrix, scale |-> scale,
   translation |-> translation]
\* tinygltf::BufferView with the data of its buffer
BufferView(byteOffset, byteStride, data) ==
  [byteOffset |-> byteOffset, byteStride |-> byteStride, data |-> data]
\* tinygltf::Accessor with its buffer view
Accessor(componentType, type, count, byteOffset, view) ==
  [componentType |-> componentType, type |-> type, count |-> count,
   byteOffset |-> byteOffset, view |-> view]
\* tinygltf::Primitive: indices is an accessor or NoAccessor (-1),
\* attributes maps the names present to their accessors
NoAccessor == [componentType |-> "none"]
Primitive(indices, material, mode, attributes) ==
  [indices |-> indices, material |-> material, mode |-> mode,
   attributes |-> attributes]

\* Then(value), with `value` worked out once
With(value, Then(_)) == CHOOSE out \in {Then(v) : v \in {value}} : TRUE

\* tinygltf::GetComponentSizeInBytes
ComponentSize(componentType) ==
  CASE componentType \in {"BYTE", "UNSIGNED_BYTE"} -> 1
    [] componentType \in {"SHORT", "UNSIGNED_SHORT"} -> 2
    [] componentType \in {"INT", "UNSIGNED_INT", "FLOAT"} -> 4
    [] componentType = "DOUBLE" -> 8
    [] OTHER -> -1
\* tinygltf::GetNumComponentsInType
NumComponents(type) ==
  CASE type = "SCALAR" -> 1
    [] type = "VEC2" -> 2
    [] type = "VEC3" -> 3
    [] type = "VEC4" -> 4
    [] OTHER -> -1
\* tinygltf::Accessor::ByteStride
ByteStride(accessor) ==
  LET size == ComponentSize(accessor.componentType)
      n == NumComponents(accessor.type)
  IN  IF accessor.view.byteStride = 0
        THEN IF size <= 0 \/ n <= 0 THEN -1 ELSE size * n
      ELSE IF size <= 0 \/ accessor.view.byteStride % size # 0 THEN -1
      ELSE accessor.view.byteStride

\* BuildMatrixFromNode: the matrix of the node if it has one, else
\* identity * scale * translation
BuildMatrixFromNode(node) ==
  IF node.matrix # <<>>
    THEN [k \in 0..15 |-> node.matrix[k + 1]]
    ELSE LET scaled == IF node.scale # <<>>
                         THEN Multiply44(Identity44, Scale44(node.scale))
                         ELSE Identity44
         IN  IF node.translation # <<>>
               THEN Multiply44(scaled, Translate44(node.translation))
               ELSE scaled

\* GLTFComponentTypeToAttributeFormat: whether it succeeds, and the type
\* and the integer flag it leaves in the format
AttributeFormatOf(componentType, was) ==
  CASE componentType = "BYTE" -> [ok |-> TRUE, type |-> "Byte", integer |-> FALSE]
    [] componentType = "FLOAT" -> [ok |-> TRUE, type |-> "Float", integer |-> FALSE]
    [] componentType = "INT" -> [ok |-> TRUE, type |-> "Float", integer |-> TRUE]
    [] componentType = "SHORT" -> [ok |-> TRUE, type |-> "Short", integer |-> FALSE]
    [] componentType = "UNSIGNED_BYTE" ->
         [ok |-> TRUE, type |-> "UByte", integer |-> FALSE]
    [] componentType = "UNSIGNED_SHORT" ->
         [ok |-> TRUE, type |-> "UShort", integer |-> FALSE]
    [] componentType \in {"DOUBLE", "UNSIGNED_INT"} ->
         [ok |-> FALSE, type |-> was.type, integer |-> was.integer]
    [] OTHER -> [ok |-> TRUE, type |-> was.type, integer |-> was.integer]

\* an AttributeFormat nothing has been assigned to
UnsetFormat ==
  [type |-> "unset", components |-> "unset", offset |-> "unset",
   enable |-> "unset", integer |-> "unset"]

\* all_names of ReadGLTFMesh: the order of the stride pass
AllNames ==
  <<"POSITION", "NORMAL", "COLOR_0", "COLOR_1", "TEXCOORD_0", "TEXCOORD_1",
    "TEXCOORD_2", "TEXCOORD_3", "TEXCOORD_4", "TEXCOORD_5", "TEXCOORD_6",
    "TEXCOORD_7">>
\* the order in which ReadGLTFMesh copies the attributes after POSITION:
\* color_names, NORMAL, texcoord_names
CopyNames ==
  <<"COLOR_0", "COLOR_1", "NORMAL", "TEXCOORD_0", "TEXCOORD_1", "TEXCOORD_2",
    "TEXCOORD_3", "TEXCOORD_4", "TEXCOORD_5", "TEXCOORD_6", "TEXCOORD_7">>
\* the components each slot is declared with
DeclaredComponents(name) ==
  IF name \in {"POSITION", "NORMAL", "COLOR_0", "COLOR_1"} THEN 3 ELSE 2
\* the bit of components_available each attribute sets: a flag and the
\* places it is shifted by
ComponentBit(name) ==
  CASE name = "POSITION" -> {}
    [] name = "NORMAL" -> {<<"VB_HAS_NORMAL", 0>>}
    [] name = "COLOR_0" -> {<<"VB_HAS_COL0", 0>>}
    [] name = "COLOR_1" -> {<<"VB_HAS_COL0", 1>>}
    [] OTHER -> {<<"VB_HAS_UV0", (CHOOSE k \in DOMAIN AllNames : AllNames[k] = name) - 5>>}

\* UpdateVertexStrideFromPrimitive: what the accessor adds to vertex_stride
StrideOf(accessor) ==
  IF NumComponents(accessor.type) = -1 \/ ComponentSize(accessor.componentType) = -1
    THEN 0
    ELSE ComponentSize(accessor.componentType) * NumComponents(accessor.type)

\* lines 267-280: the stride pass over all_names
RECURSIVE VertexStride(_, _)
VertexStride(attributes, k) ==
  IF k > Len(AllNames) THEN 0
  ELSE (IF AllNames[k] \in DOMAIN attributes
          THEN StrideOf(attributes[AllNames[k]]) ELSE 0)
         + VertexStride(attributes, k + 1)

\* CopyBufferDataFromPrimitive: vertex_data and *outbound_offset afterwards,
\* and whether a memcpy left the source or the destination
CopyBufferDataFromPrimitive(accessor, outbound_offset, vertex_stride, vertex_data) ==
  LET size == StrideOf(accessor)
      base == accessor.byteOffset + accessor.view.byteOffset
      step == IF accessor.view.byteStride = 0 THEN size
              ELSE accessor.view.byteStride
      source(i, b) == base + i * step + b
      target(i, b) == i * vertex_stride + outbound_offset + b
      cells == {<<i, b>> : i \in 0..(accessor.count - 1), b \in 0..(size - 1)}
      outside == \E c \in cells :
                   \/ source(c[1], c[2]) >= Len(accessor.view.data)
                   \/ target(c[1], c[2]) >= Len(vertex_data)
      copied ==
        [k \in 1..Len(vertex_data) |->
           LET at == k - 1 - outbound_offset
               i == IF vertex_stride = 0 THEN 0 ELSE at \div vertex_stride
               b == IF vertex_stride = 0 THEN at ELSE at % vertex_stride
           IN  IF at >= 0 /\ i < accessor.count /\ b < size
                  /\ source(i, b) < Len(accessor.view.data)
                 THEN accessor.view.data[source(i, b) + 1]
                 ELSE vertex_data[k]]
  IN  IF size = 0
        THEN [vertex_data |-> vertex_data, outbound_offset |-> outbound_offset,
              outside |-> FALSE]
        ELSE [vertex_data |-> copied, outbound_offset |-> outbound_offset + size,
              outside |-> outside]


\* a variant that keeps the largest index a u16 can hold
IndexCastSaturating(value) == IF value > 65535 THEN 65535 ELSE value
\* static_cast<u16>(u32)
IndexCast(value) == value % 65536

\* lines 221-243: the indices of the chunk, read from the bytes of the
\* index accessor
ReadIndices(accessor, index_stride) ==
  LET base == accessor.byteOffset + accessor.view.byteOffset
      read(i, n) ==
        FromLittleEndian(SubSeq(accessor.view.data, base + i * index_stride + 1,
                                base + i * index_stride + n))
  IN  [k \in 1..accessor.count |->
         CASE accessor.componentType = "UNSIGNED_SHORT" -> read(k - 1, 2)
           [] accessor.componentType = "UNSIGNED_BYTE" -> read(k - 1, 1)
           [] accessor.componentType = "UNSIGNED_INT" -> IndexCast(read(k - 1, 4))
           [] OTHER -> 0]

\* lines 245-265: the primitive type for a mode; a mode the chain of ifs
\* does not name leaves chunk.primitive_type as it was
PrimitiveTypeOf(mode) ==
  CASE mode = "TRIANGLES" -> "Triangles"
    [] mode = "TRIANGLE_STRIP" -> "TriangleStrip"
    [] mode = "LINE" -> "Lines"
    [] mode = "POINTS" -> "Points"
    [] OTHER -> "unset"

\* a variant that copies the attributes in the order of all_names
CopyOrderAsStride == Tail(AllNames)
\* the names the copy pass visits after POSITION, in its order
CopyOrder == CopyNames

\* lines 302-383: the copy pass from the k-th name of CopyOrder on.
\* st: vertex_data, outbound_offset, the slots of the declaration,
\* components_available, and whether a format was refused or a memcpy left
\* its buffers
RECURSIVE CopyPass(_, _, _, _)
CopyPass(attributes, vertex_stride, k, st) ==
  IF k > Len(CopyOrder) \/ st.refused THEN st
  ELSE LET name == CopyOrder[k] IN
    IF name \notin DOMAIN attributes
      THEN CopyPass(attributes, vertex_stride, k + 1,
                    [st EXCEPT !.slots[name].enable = FALSE])
      ELSE LET accessor == attributes[name]
               copy == CopyBufferDataFromPrimitive(accessor, st.outbound_offset,
                                                   vertex_stride, st.vertex_data)
               format == AttributeFormatOf(accessor.componentType, st.slots[name])
           IN  CopyPass(attributes, vertex_stride, k + 1,
                 [st EXCEPT
                    !.slots[name] = [type |-> format.type,
                                     components |-> DeclaredComponents(name),
                                     offset |-> st.outbound_offset,
                                     enable |-> TRUE,
                                     integer |-> format.integer],
                    !.vertex_data = copy.vertex_data,
                    !.outbound_offset = copy.outbound_offset,
                    !.components_available = @ \cup ComponentBit(name),
                    !.outside = @ \/ copy.outside,
                    !.refused = ~format.ok])

\* One turn of the primitive loop of ReadGLTFMesh (lines 203-389): the
\* chunk it appends, or none when it returns before the push_back
ReadPrimitive(primitive, materials, mat) ==
  LET none == [appended |-> FALSE, outside |-> FALSE]
      index_accessor == primitive.indices
      index_stride == ByteStride(index_accessor)
      vertex_stride == VertexStride(primitive.attributes, 1)
      pos_accessor == primitive.attributes["POSITION"]
      num_vertices == pos_accessor.count
      position == CopyBufferDataFromPrimitive(
                    pos_accessor, 0, vertex_stride,
                    [k \in 1..(num_vertices * vertex_stride) |-> 0])
      pos_format == AttributeFormatOf(pos_accessor.componentType, UnsetFormat)
      pass == CopyPass(primitive.attributes, vertex_stride, 1,
                [vertex_data |-> position.vertex_data,
                 outbound_offset |-> position.outbound_offset,
                 slots |-> [n \in Range(AllNames) |->
                              IF n = "POSITION"
                                THEN [type |-> pos_format.type, components |-> 3,
                                      offset |-> 0, enable |-> TRUE,
                                      integer |-> pos_format.integer]
                                ELSE UnsetFormat],
                 components_available |-> {},
                 outside |-> position.outside,
                 refused |-> FALSE])
  IN  IF index_accessor = NoAccessor THEN none
      ELSE IF index_stride = -1 THEN none
      ELSE IF primitive.mode = "TRIANGLE_FAN" THEN none
      ELSE IF "POSITION" \notin DOMAIN primitive.attributes THEN none
      ELSE IF ~pos_format.ok THEN [none EXCEPT !.outside = position.outside]
      ELSE IF pass.refused THEN [none EXCEPT !.outside = pass.outside]
      ELSE [appended |-> TRUE, outside |-> pass.outside,
            offset |-> pass.outbound_offset,
            chunk |->
              MeshDataChunk(num_vertices, vertex_stride, pass.vertex_data,
                            index_accessor.count,
                            ReadIndices(index_accessor, index_stride),
                            [stride |-> vertex_stride, slots |-> pass.slots,
                             posmtx |-> [enable |-> FALSE]],
                            PrimitiveTypeOf(primitive.mode),
                            pass.components_available, mat,
                            materials[primitive.material + 1])]

\* ReadGLTFMesh: the chunks of *data after the primitives of `mesh` from
\* the k-th on; the first primitive that is refused ends the call
RECURSIVE ReadGLTFMesh(_, _, _, _, _, _)
ReadGLTFMesh(mesh, materials, mat, k, node, data) ==
  IF k > Len(mesh) THEN data
  ELSE With(ReadPrimitive(mesh[k], materials, mat), LAMBDA r :
         IF ~r.appended THEN [data EXCEPT !.refused = @ \cup {node},
                                          !.outside = @ \/ r.outside]
         ELSE ReadGLTFMesh(mesh, materials, mat, k + 1, node,
                [data EXCEPT !.chunks = Append(@, r.chunk),
                             !.origin = Append(@, [node |-> node, primitive |-> k,
                                                  offset |-> r.offset]),
                             !.outside = @ \/ r.outside]))

\* a variant that composes the child before the parent
ChildMatrixReversed(mat, child) == Multiply44(BuildMatrixFromNode(child), mat)
\* `const auto child_mat = mat * BuildMatrixFromNode(child);`
ChildMatrix(mat, child) == Multiply44(mat, BuildMatrixFromNode(child))

\* ReadGLTFNodes for the node of index `n` (from 0), then for its children
\* from the k-th on
RECURSIVE ReadGLTFNodes(_, _, _, _)
RECURSIVE ReadChildren(_, _, _, _, _)
ReadGLTFNodes(model, n, mat, data) ==
  LET node == model.nodes[n + 1]
      read == IF node.mesh # -1
                THEN ReadGLTFMesh(model.meshes[node.mesh + 1], model.materials,
                                  mat, 1, n, data)
                ELSE data
  IN  ReadChildren(model, n, mat, 1, read)
ReadChildren(model, n, mat, k, data) ==
  LET node == model.nodes[n + 1] IN
  IF k > Len(node.children) THEN data
  ELSE LET child == node.children[k]
       IN  ReadChildren(model, n, mat, k + 1,
             ReadGLTFNodes(model, child,
                           ChildMatrix(mat, model.nodes[child + 1]), data))

\* ReadGLTF: the roots of the scene in turn, then ReadGLTFMaterials
RECURSIVE ReadRoots(_, _, _)
ReadRoots(model, k, data) ==
  LET scene_index == IF model.defaultScene = -1 THEN 0 ELSE model.defaultScene
      roots == model.scenes[scene_index + 1]
  IN  IF k > Len(roots) THEN data
      ELSE ReadRoots(model, k + 1,
             ReadGLTFNodes(model, roots[k],
                           BuildMatrixFromNode(model.nodes[roots[k] + 1]), data))
ReadGLTF(model) ==
  With(ReadRoots(model, 1, [chunks |-> <<>>, origin |-> <<>>,
                            refused |-> {}, outside |-> FALSE]),
       LAMBDA data :
         [data |-> MeshData(data.chunks, ImportedMapping(Range(model.materials))),
          origin |-> data.origin, refused |-> data.refused,
          outside |-> data.outside])


\* MeshData::FromGLTF: its return value and whether it calls ReadGLTF, for
\* a file name with this extension that tinygltf parses or does not
FromGLTF(extension, parsed) ==
  IF extension = ".glb" THEN [ok |-> FALSE, read |-> FALSE]
  ELSE IF extension = ".gltf"
    THEN IF ~parsed THEN [ok |-> FALSE, read |-> FALSE]
         ELSE [ok |-> TRUE, read |-> TRUE]
  ELSE [ok |-> FALSE, read |-> FALSE]

---------------------------------------------------------------------------
(* glTF files under test.                                                  *)

\* the bytes of `values`, each in `size` bytes, `stride` bytes apart,
\* after `lead` bytes that belong to something else
Packed(values, size, stride, lead) ==
  Pattern(lead, 11)
    \o Flatten([k \in DOMAIN values |->
                  LittleEndian(values[k], size) \o Pattern(stride - size, k)])
IndexAccessor(componentType, values, byteStride, lead) ==
  LET size == ComponentSize(componentType)
  IN  Accessor(componentType, "SCALAR", Len(values), lead,
               BufferView(0, byteStride,
                          Packed(values, size,
                                 IF byteStride = 0 THEN size ELSE byteStride, lead)))
\* index lists: component type, values, byteStride of the view, and the
\* bytes ahead of the first index
IndexLists ==
  { <<"UNSIGNED_SHORT", <<0, 1, 2>>, 0, 0>>,
    <<"UNSIGNED_SHORT", <<2, 65535, 258>>, 4, 2>>,
    <<"UNSIGNED_BYTE", <<0, 1, 255>>, 0, 0>>,
    <<"UNSIGNED_INT", <<0, 1, 70000>>, 0, 4>>,
    <<"UNSIGNED_INT", <<65535, 65536, 131073, 3>>, 8, 0>> }
IndexAccessors == {IndexAccessor(l[1], l[2], l[3], l[4]) : l \in IndexLists}
Vertices == 2
AttributeAccessor(componentType, type, byteStride, seed) ==
  LET size == ComponentSize(componentType) * NumComponents(type)
      step == IF byteStride = 0 THEN size ELSE byteStride
  IN  Accessor(componentType, type, Vertices, 0,
               BufferView(0, byteStride, Pattern(Vertices * step, seed)))
A_position == AttributeAccessor("FLOAT", "VEC3", 0, 1)
A_interleaved == AttributeAccessor("FLOAT", "VEC3", 16, 2)
A_normal == AttributeAccessor("FLOAT", "VEC3", 0, 3)
A_color == AttributeAccessor("UNSIGNED_BYTE", "VEC4", 0, 4)
A_texcoord == AttributeAccessor("FLOAT", "VEC2", 0, 5)
A_short == AttributeAccessor("UNSIGNED_SHORT", "VEC2", 0, 6)
A_scalar == AttributeAccessor("FLOAT", "SCALAR", 0, 7)
AttributeSets ==
  { [n \in {"POSITION"} |-> A_position],
    [n \in {"POSITION"} |-> A_interleaved],
    [n \in {"NORMAL"} |-> A_normal],
    [n \in {"POSITION", "NORMAL"} |-> IF n = "POSITION" THEN A_position ELSE A_normal],
    [n \in {"POSITION", "TEXCOORD_0"} |-> IF n = "POSITION" THEN A_position ELSE A_scalar],
    [n \in {"POSITION", "NORMAL", "COLOR_0"} |->
       CASE n = "POSITION" -> A_position [] n = "NORMAL" -> A_normal
         [] OTHER -> A_color],
    [n \in {"POSITION", "COLOR_1", "TEXCOORD_0", "TEXCOORD_3"} |->
       CASE n = "POSITION" -> A_interleaved [] n = "COLOR_1" -> A_color
         [] n = "TEXCOORD_0" -> A_texcoord [] OTHER -> A_short],
    [n \in {"POSITION", "NORMAL", "COLOR_0", "COLOR_1", "TEXCOORD_1"} |->
       CASE n = "POSITION" -> A_position [] n = "NORMAL" -> A_normal
         [] n = "TEXCOORD_1" -> A_texcoord [] OTHER -> A_color] }
Modes == {"TRIANGLES", "TRIANGLE_STRIP", "TRIANGLE_FAN", "LINE", "POINTS"}
GlPrimitives ==
  { Primitive(indices, 0, mode, attributes) :
      indices \in IndexAccessors \cup {NoAccessor},
      mode \in {"TRIANGLES", "TRIANGLE_FAN"},
      attributes \in AttributeSets }
  \cup { Primitive(IndexAccessor("UNSIGNED_SHORT", <<0, 1, 2>>, 0, 0), 1, mode,
                   [n \in {"POSITION"} |-> A_position]) : mode \in Modes }
P_good == Primitive(IndexAccessor("UNSIGNED_SHORT", <<0, 1, 2>>, 0, 0), 1, "TRIANGLES", [n \in {"POSITION"} |-> A_position])
P_bad ==
  { Primitive(NoAccessor, 0, "TRIANGLES", [n \in {"POSITION"} |-> A_position]),
    Primitive(IndexAccessor("UNSIGNED_BYTE", <<0, 1, 255>>, 0, 0), 0,
              "TRIANGLE_FAN", [n \in {"POSITION"} |-> A_position]),
    Primitive(IndexAccessor("UNSIGNED_BYTE", <<0, 1, 255>>, 0, 0), 0,
              "TRIANGLES", [n \in {"NORMAL"} |-> A_normal]),
    Primitive(IndexAccessor("UNSIGNED_BYTE", <<0, 1, 255>>, 0, 0), 0,
              "POINTS", [n \in {"POSITION"} |-> A_position]) }

GltfModel(nodes, meshes, roots) ==
  [nodes |-> nodes, meshes |-> meshes, materials |-> <<M_m, M_n>>,
   scenes |-> <<roots>>, defaultScene |-> -1]
\* a root with a translation of (1,0,0) over an untransformed child with
\* the mesh
TranslatedRoot(mesh) ==
  GltfModel(<<Node(-1, <<1>>, <<>>, <<>>, <<1, 0, 0>>),
              Node(0, <<>>, <<>>, <<>>, <<>>)>>,
            <<mesh>>, <<0>>)
\* a scaled root with two subtrees, one of them two levels deep and ending
\* in a node with a matrix, and a second root
Family(first, second) ==
  GltfModel(<<Node(-1, <<1, 2>>, <<>>, <<2, 2, 2>>, <<>>),
              Node(0, <<3>>, <<>>, <<1, 3, 1>>, <<1, 0, 0>>),
              Node(1, <<>>, <<>>, <<>>, <<0, 5, 0>>),
              Node(1, <<>>,
                   <<1, 0, 0, 4, 0, 1, 0, 0, 0, 0, 1, 0, 0, 0, 0, 1>>, <<>>, <<>>),
              Node(0, <<>>, <<>>, <<>>, <<0, 0, 7>>)>>,
            <<first, second>>, <<0, 4>>)
GltfModels ==
  {TranslatedRoot(<<p>>) : p \in GlPrimitives}
    \cup {Family(<<P_good, p>>, <<q>>) : p \in P_bad \cup {P_good},
                                         q \in P_bad \cup {P_good}}
Extensions == {".gltf", ".glb", ".obj"}

GlInit ==
  /\ gl_pc = "called"
  /\ \E extension \in Extensions, parsed \in BOOLEAN, model \in GltfModels :
       /\ (extension # ".gltf" \/ ~parsed) => model = TranslatedRoot(<<P_good>>)
       /\ gl_model = [extension |-> extension, parsed |-> parsed, model |-> model]
  /\ gl_out = FreshMeshData
  /\ gl_ok = "unset"
  /\ gl_origin = [origin |-> <<>>, refused |-> {}, outside |-> FALSE]

\* MeshData::FromGLTF(gltf_file, data)
GlFromGLTF ==
  /\ gl_pc = "called"
  /\ LET r == FromGLTF(gl_model.extension, gl_model.parsed)
     IN  /\ gl_ok' = (IF r.ok THEN "true" ELSE "false")
         /\ IF r.read
              THEN \E read \in {ReadGLTF(gl_model.model)} :
                     /\ gl_out' = read.data
                     /\ gl_origin' = [origin |-> read.origin, refused |-> read.refused,
                                      outside |-> read.outside]
              ELSE UNCHANGED <<gl_out, gl_origin>>
  /\ gl_pc' = "returned"
  /\ UNCHANGED gl_model

InitGltf ==
  MatIdle /\ ShIdle /\ MeshIdle /\ PlIdle /\ LdIdle /\ CmIdle /\ GlInit /\ ToolIdle
NextGltf ==
  GlFromGLTF /\ UNCHANGED <<matVars, shVars, meshVars, plVars, ldVars, cmVars, toolVars>>
SpecGltf == InitGltf /\ [][NextGltf]_vars

\* the node that has `n` among its children
Parent(model, n) ==
  CHOOSE m \in 0..(Len(model.nodes) - 1) :
    n \in Range(model.nodes[m + 1].children)
\* Local(n0) * ... * Local(nk) along the path from a root to the node n
RECURSIVE PathProduct(_, _)
PathProduct(model, n) ==
  IF n \in Range(model.scenes[1])
    THEN BuildMatrixFromNode(model.nodes[n + 1])
    ELSE Multiply44(PathProduct(model, Parent(model, n)),
                    BuildMatrixFromNode(model.nodes[n + 1]))
GlRead == gl_pc = "returned" /\ gl_ok = "true"

\* C17: every chunk read from the mesh of a node has for its transform the
\* product of the local matrices along the path from the root to that
\* node, parent before child, whatever the other subtrees hold; a root
\* translated by (1,0,0) over an untransformed child with a mesh gives
\* one chunk whose transform is the translation by (1,0,0)
C17_PathProduct ==
  GlRead =>
    /\ \A k \in DOMAIN gl_out.m_mesh_chunks :
         gl_out.m_mesh_chunks[k].transform
           = PathProduct(gl_model.model, gl_origin.origin[k].node)
    /\ (gl_model.model = TranslatedRoot(<<P_good>>)) =>
         /\ Len(gl_out.m_mesh_chunks) = 1
         /\ gl_out.m_mesh_chunks[1].transform = Translate44(<<1, 0, 0>>)
\* an import that read chunks from nodes three levels deep and from two
\* sibling subtrees under a scaled root
C17_Witness ==
  /\ GlRead
  /\ Len(gl_model.model.nodes) = 5
  /\ {2, 3} \subseteq {o.node : o \in Range(gl_origin.origin)}
  /\ \E k \in DOMAIN gl_out.m_mesh_chunks :
       /\ gl_origin.origin[k].node = 3
       /\ gl_out.m_mesh_chunks[k].transform[3] # 4


\* the primitive the k-th chunk of *data was read from
SourcePrimitive(k) ==
  LET o == gl_origin.origin[k]
  IN  gl_model.model.meshes[gl_model.model.nodes[o.node + 1].mesh + 1][o.primitive]
\* ReadGLTF ran and ReadGLTFMesh refused a primitive
GlRefused == gl_pc = "returned" /\ gl_model.extension = ".gltf" /\ gl_model.parsed
               /\ gl_origin.refused # {}

\* C18: when a primitive has no indices, no POSITION or is a triangle
\* fan, MeshData::FromGLTF returns false (the chunks appended before that
\* primitive stay in *data)
C18_RefusalFails ==
  GlRefused => gl_ok = "false"
\* an import in which the second primitive of the first mesh was refused
\* after the first had been appended
C18_Witness ==
  /\ GlRefused
  /\ 1 \in gl_origin.refused
  /\ gl_out.m_mesh_chunks # <<>>
  /\ gl_origin.origin[1].node = 1 /\ gl_origin.origin[1].primitive = 1

\* C19: each index of a chunk is the source index as a 16-bit value:
\* 8-bit and 16-bit indices as they are, a 32-bit index v as v mod 65536
\* (70000 as 4464), and num_indices is the count of the index accessor
C19_IndicesTruncated ==
  GlRead =>
    \A k \in DOMAIN gl_out.m_mesh_chunks, l \in IndexLists :
      SourcePrimitive(k).indices = IndexAccessor(l[1], l[2], l[3], l[4]) =>
        LET chunk == gl_out.m_mesh_chunks[k]
        IN  /\ chunk.num_indices = Len(l[2])
            /\ Len(chunk.indices) = Len(l[2])
            /\ \A i \in DOMAIN l[2] :
                 /\ chunk.indices[i] = l[2][i] % 65536
                 /\ l[1] # "UNSIGNED_INT" => chunk.indices[i] = l[2][i]
                 /\ l[2][i] = 70000 => chunk.indices[i] = 4464
\* a chunk read from 32-bit indices with 70000 among them
C19_Witness ==
  /\ GlRead
  /\ \E k \in DOMAIN gl_out.m_mesh_chunks :
       /\ SourcePrimitive(k).indices.componentType = "UNSIGNED_INT"
       /\ gl_out.m_mesh_chunks[k].indices = <<0, 1, 4464>>

\* the bytes of the attributes of `attributes` that come before `name` in
\* all_names
RECURSIVE SizesBefore(_, _, _)
SizesBefore(attributes, name, k) ==
  IF AllNames[k] = name THEN 0
  ELSE (IF AllNames[k] \in DOMAIN attributes
          THEN StrideOf(attributes[AllNames[k]]) ELSE 0)
         + SizesBefore(attributes, name, k + 1)

\* C20: the offset declared for each enabled attribute of a chunk is the
\* sum of the sizes of the attributes present that come before it in
\* POSITION, NORMAL, COLOR_0, COLOR_1, TEXCOORD_0..7
C20_OffsetsInStrideOrder ==
  GlRead =>
    \A k \in DOMAIN gl_out.m_mesh_chunks :
      \A name \in Range(AllNames) :
        LET slot == gl_out.m_mesh_chunks[k].vertex_declaration.slots[name]
        IN  slot.enable = TRUE =>
              slot.offset = SizesBefore(SourcePrimitive(k).attributes, name, 1)
\* a chunk with a normal and a colour
C20_Witness ==
  /\ GlRead
  /\ \E k \in DOMAIN gl_out.m_mesh_chunks :
       /\ gl_out.m_mesh_chunks[k].vertex_declaration.slots["NORMAL"].enable = TRUE
       /\ gl_out.m_mesh_chunks[k].vertex_declaration.slots["COLOR_0"].enable = TRUE


---------------------------------------------------------------------------
(* The chunks the importer appends.                                        *)

\* the bytes of one component of a ComponentFormat
FormatSize(type) ==
  CASE type \in {"Byte", "UByte"} -> 1
    [] type \in {"Short", "UShort"} -> 2
    [] type \in {"Float", "Integer"} -> 4
    [] OTHER -> 0
\* the bytes of a vertex an enabled slot of a declaration names
SlotBytes(slot) ==
  {slot.offset + b : b \in 0..(slot.components * FormatSize(slot.type) - 1)}
EnabledSlots(chunk) ==
  {name \in Range(AllNames) : chunk.vertex_declaration.slots[name].enable = TRUE}

\* C21: in every chunk the importer appends, vertex_data holds
\* num_vertices * vertex_stride bytes, indices holds num_indices entries,
\* the bytes of every enabled attribute (components x component size from
\* its offset) lie within the vertex and are shared with no other enabled
\* attribute, and the running offset after the copy pass is vertex_stride
C21_ChunkInvariant ==
  GlRead =>
    \A k \in DOMAIN gl_out.m_mesh_chunks :
      LET chunk == gl_out.m_mesh_chunks[k]
          slots == chunk.vertex_declaration.slots
      IN  /\ Len(chunk.vertex_data) = chunk.num_vertices * chunk.vertex_stride
          /\ Len(chunk.indices) = chunk.num_indices
          /\ gl_origin.origin[k].offset = chunk.vertex_stride
          /\ \A name \in EnabledSlots(chunk) :
               /\ SlotBytes(slots[name]) \subseteq 0..(chunk.vertex_stride - 1)
               /\ \A other \in EnabledSlots(chunk) \ {name} :
                    SlotBytes(slots[name]) \cap SlotBytes(slots[other]) = {}
\* a chunk with four attributes, one of them from an interleaved view
C21_Witness ==
  /\ GlRead
  /\ \E k \in DOMAIN gl_out.m_mesh_chunks :
       /\ Cardinality(EnabledSlots(gl_out.m_mesh_chunks[k])) = 4
       /\ gl_out.m_mesh_chunks[k].vertex_stride = 28
       /\ gl_origin.origin[k].offset = 28
\* the same invariant over the chunks whose accessors hold at least the
\* components their slots declare
C21_ConformingChunks ==
  GlRead =>
    \A k \in DOMAIN gl_out.m_mesh_chunks :
      LET chunk == gl_out.m_mesh_chunks[k]
          slots == chunk.vertex_declaration.slots
          attributes == SourcePrimitive(k).attributes
      IN  (\A name \in DOMAIN attributes :
             NumComponents(attributes[name].type) >= DeclaredComponents(name)) =>
            \A name \in EnabledSlots(chunk) :
              /\ SlotBytes(slots[name]) \subseteq 0..(chunk.vertex_stride - 1)
              /\ \A other \in EnabledSlots(chunk) \ {name} :
                   SlotBytes(slots[name]) \cap SlotBytes(slots[other]) = {}


\* the identifiers that appear in the comments at depth 0 only
CommentOnly(items) ==
  UNION {Tokens(items[k].other, 0) : k \in {j \in DOMAIN items : items[j].kind = "comment"}}
    \ UNION {Tokens(EntryRenamed(Render(items[k])), 0) :
               k \in {j \in DOMAIN items : items[j].kind # "comment"}}

\* C22: GlobalConflicts reports no identifier that stands only inside a
\* `//` or `/* */` comment at depth 0, wherever the comment is placed (the
\* very start of the source included) and whatever its body begins with
C22_CommentsSilent ==
  sh_pc = "drawn" =>
    \A k \in DOMAIN sh_conflicts : sh_conflicts[k] \notin CommentOnly(sh_items)
\* a source that opens with a block comment ahead of a function
C22_Witness ==
  /\ sh_pc = "drawn"
  /\ Len(sh_items) = 2
  /\ sh_items[1].kind = "comment" /\ sh_items[1].other[2] = "*"
  /\ sh_items[2].kind = "func"
  /\ N_execute \in Range(sh_conflicts)
\* the same for the comments that are not at index 0 and whose body does
\* not begin with '/'
C22_PlainComments ==
  sh_pc = "drawn" =>
    ((\A k \in DOMAIN sh_items :
        sh_items[k].kind = "comment" =>
          /\ sh_items[k].other[3] # "/" \/ sh_items[k].other[2] = "/"
          /\ k > 1 \/ sh_items[k].other[2] = "/")
      => \A k \in DOMAIN sh_conflicts : sh_conflicts[k] \notin CommentOnly(sh_items))


---------------------------------------------------------------------------
(* The material editor: MaterialControl::DrawControl brings the            *)
(* properties of a material in line with the properties of its shader.     *)

\* VideoCommon::ShaderProperty::Type, the cases of the switch
SamplerTypes == {"SamplerArrayShared_Main", "SamplerArrayShared_Additional", "Sampler2D"}
ShaderTypes ==
  SamplerTypes \cup {"Int", "Int2", "Int3", "Int4", "Float", "Float2", "Float3",
                     "Float4", "RGBA", "RGB", "Bool"}
\* a value-initialised alternative of the variant: ElementType{} or
\* std::array<ElementType, ElementSize>{}
ZeroOf(kind) ==
  CASE kind = "s32" -> VS32(0)
    [] kind = "float" -> VFloat(0)
    [] kind = "s32x2" -> VS32Arr(Zeros(2))
    [] kind = "s32x3" -> VS32Arr(Zeros(3))
    [] kind = "s32x4" -> VS32Arr(Zeros(4))
    [] kind = "floatx2" -> VFloatArr(Zeros(2))
    [] kind = "floatx3" -> VFloatArr(Zeros(3))
    [] kind = "floatx4" -> VFloatArr(Zeros(4))
    [] OTHER -> VBool(FALSE)
\* what the widget leaves in a value of this kind when the user types
Typed(kind) ==
  CASE kind = "s32" -> VS32(1)
    [] kind = "float" -> VFloat(1)
    [] kind = "bool" -> VBool(TRUE)
    [] kind = "AssetID" -> VAssetID("tex1")
    [] kind \in {"s32x2", "s32x3", "s32x4"} -> [ZeroOf(kind) EXCEPT !.v[1] = 1]
    [] OTHER -> [ZeroOf(kind) EXCEPT !.v[1] = 1]

\* DrawNumericUniformControl<ElementType, ElementSize, IsColor>: *value
\* afterwards.  An empty optional is filled with zeros first; the widget
\* is drawn only over a value of the kind the template names.
DrawNumericUniformControl(kind, value, edits) ==
  LET held == IF value.k = "nullopt" THEN ZeroOf(kind) ELSE value
  IN  IF held.k = kind /\ edits THEN Typed(kind) ELSE held

\* the Bool case: an empty optional becomes false, then the checkbox
DrawCheckbox(value, edits) ==
  LET held == IF value.k = "nullopt" THEN VBool(FALSE) ELSE value
  IN  IF held.k = "bool" /\ edits THEN Typed("bool") ELSE held

\* the sampler cases: AssetDisplay over the asset id the value holds, or
\* over a local "" that is stored only when the user picks an asset
DrawAssetDisplay(value, edits) ==
  IF value.k = "nullopt" THEN (IF edits THEN Typed("AssetID") ELSE value)
  ELSE IF value.k = "AssetID" /\ edits THEN Typed("AssetID")
  ELSE value

\* one numeric case of the switch: m_type, then the control
NumericCase(property, type, edits) ==
  [property EXCEPT !.m_type = type,
                   !.m_value = DrawNumericUniformControl(KindOfType(type), @, edits)]

\* the switch of DrawControl over shader_property.m_type; the case of
\* Type_Int4 has no break and runs on into the case of Type_Float
DrawSwitch(shader_type, property, edits) ==
  CASE shader_type \in SamplerTypes ->
         [property EXCEPT !.m_type = "TextureAsset",
                          !.m_value = DrawAssetDisplay(@, edits)]
    [] shader_type \in {"Int", "Int2", "Int3", "Float", "Float2", "Float3", "Float4"} ->
         NumericCase(property, shader_type, edits)
    [] shader_type = "Int4" ->
         NumericCase(NumericCase(property, "Int4", edits), "Float", edits)
    [] shader_type = "RGBA" -> NumericCase(property, "Float4", edits)
    [] shader_type = "RGB" -> NumericCase(property, "Float3", edits)
    [] shader_type = "Bool" ->
         [property EXCEPT !.m_type = "Bool", !.m_value = DrawCheckbox(@, edits)]
    [] OTHER -> property

\* a value-initialised MaterialProperty, as resize() appends it
DefaultProperty == MaterialProperty("", "Undefined", NullOpt)
\* material->properties.resize(n)
ResizedTo(properties, n) ==
  [k \in 1..n |-> IF k <= Len(properties) THEN properties[k] ELSE DefaultProperty]

\* MaterialControl::DrawControl(shader, material): *material afterwards.
\* ui.header, ui.table: whether CollapsingHeader and BeginTable returned
\* true; ui.edits: whether the user changed the widgets
DrawControl(shader_properties, material, ui) ==
  IF DOMAIN shader_properties = {} \/ ~ui.header \/ ~ui.table THEN material
  ELSE LET names == DeclaredNames(shader_properties)
           resized == ResizedTo(material.properties, Len(names))
       IN  [material EXCEPT !.properties =
              [k \in DOMAIN names |->
                 DrawSwitch(shader_properties[names[k]],
                            [resized[k] EXCEPT !.m_code_name = names[k]],
                            ui.edits)]]

\* shaders of one and of two properties, of every type
McShaders ==
  {[n \in {"count"} |-> t] : t \in ShaderTypes}
    \cup {[n \in {"count", "tint"} |-> IF n = "count" THEN t ELSE u] :
            t \in ShaderTypes, u \in {"Float", "Int4", "Sampler2D"}}
\* a new material, one that was edited for another shader, and one with
\* more properties than the shader has
McMaterials ==
  { MaterialData(<<>>, "shader1"),
    MaterialData(<<P_count>>, "shader1"),
    MaterialData(<<P_tex, P_count, P_tint>>, "shader1") }

McInit ==
  /\ mc_pc = "shown"
  /\ mc_shader \in McShaders
  /\ mc_material \in McMaterials
  /\ mc_ui = <<>>

\* one frame of the material editor
McDrawControl ==
  /\ mc_pc \in {"shown", "drawn"}
  /\ \E header \in BOOLEAN, table \in BOOLEAN, edits \in BOOLEAN :
       /\ mc_ui' = [header |-> header, table |-> table, edits |-> edits]
       /\ mc_material' = DrawControl(mc_shader, mc_material, mc_ui')
  /\ mc_pc' = "drawn"
  /\ UNCHANGED mc_shader

InitEditor ==
  /\ MatIdle /\ ShIdle /\ MeshIdle /\ PlIdle /\ LdIdle /\ CmIdle /\ GlIdle
  /\ McInit /\ ScIdle
NextEditor ==
  McDrawControl /\ UNCHANGED <<matVars, shVars, meshVars, plVars, ldVars, cmVars, glVars, scVars>>
SpecEditor == InitEditor /\ [][NextEditor]_vars

\* the material type the claim gives each shader type
MaterialTypeOf(shader_type) ==
  CASE shader_type \in SamplerTypes -> "TextureAsset"
    [] shader_type = "RGBA" -> "Float4"
    [] shader_type = "RGB" -> "Float3"
    [] OTHER -> shader_type
\* DrawControl drew the table of the properties in the last frame
McDrawn == mc_pc = "drawn" /\ mc_ui.header /\ mc_ui.table

\* C23: after DrawControl has drawn the properties of a shader, the
\* material holds one property per shader property, under the same code
\* name, of the material type that belongs to the shader property's type
\* and with a value of the kind of that type
C23_OnePerShaderProperty ==
  McDrawn =>
    LET names == DeclaredNames(mc_shader)
        properties == mc_material.properties
    IN  /\ Len(properties) = Len(names)
        /\ \A k \in DOMAIN properties :
             /\ properties[k].m_code_name = names[k]
             /\ properties[k].m_type = MaterialTypeOf(mc_shader[names[k]])
             /\ properties[k].m_value.k = KindOfType(properties[k].m_type)
\* a frame over a shader with an Int4 property and a new material
C23_Witness ==
  /\ McDrawn
  /\ mc_shader["count"] = "Int4"
  /\ Len(mc_material.properties) = 1
  /\ mc_material.properties[1].m_value = VS32Arr(Zeros(4))
\* what does hold: one property per shader property under its code name,
\* and the claimed type for every shader type but Int4
C23_NamesAndOtherTypes ==
  McDrawn =>
    LET names == DeclaredNames(mc_shader)
        properties == mc_material.properties
    IN  /\ Len(properties) = Len(names)
        /\ \A k \in DOMAIN properties :
             /\ properties[k].m_code_name = names[k]
             /\ mc_shader[names[k]] # "Int4" =>
                  properties[k].m_type = MaterialTypeOf(mc_shader[names[k]])
             /\ mc_shader[names[k]] = "Int4" => properties[k].m_type = "Float"


\* the identifier tokens of the scanned source that are no conflict
Bystanders == Tokens(EntryRenamed(sh_source), 0) \ Range(sh_conflicts)

\* C24: every identifier token of the shader source that is not in the
\* conflict list is still a token of the text after the two renaming
\* loops, a name that contains a conflict identifier included
C24_OthersUnchanged ==
  sh_pc = "drawn" => Bystanders \subseteq Tokens(sh_renamed, 0)
\* a rewrite with a conflict and with tokens that are none
C24_Witness ==
  /\ sh_pc = "drawn"
  /\ sh_conflicts = <<N_execute>>
  /\ N_y \in Bystanders
  /\ N_y \in Tokens(sh_renamed, 0)
  /\ N_execute \notin Tokens(sh_renamed, 0)
\* the same for the tokens that contain no conflict identifier
C24_UnrelatedUnchanged ==
  sh_pc = "drawn" =>
    \A t \in Bystanders :
      (\A k \in DOMAIN sh_conflicts : Find(t, sh_conflicts[k], 0) = -1)
        => t \in Tokens(sh_renamed, 0)


---------------------------------------------------------------------------
(* GlobalConflicts on its own: the indices it reads and the entries it     *)
(* reports, for sources that need not be well-formed shaders.              *)

\* The indices outside [0, size()) that the for loop of GlobalConflicts
\* reads from index i on.  Two statements index without a test against
\* size(): the whitespace loop after "#define", and source[i - 1] of the
\* block comment loop, whose first test is made at the opening '/' (for
\* i = 0 the u32 i - 1 wraps to 2^32 - 1, written -1 here).
RECURSIVE ScanReads(_, _, _, _)
ScanReads(source, i, scope, before) ==
  IF i >= Len(source) THEN {}
  ELSE LET c == source[i + 1] IN
    IF scope > 0
      THEN ScanReads(source, i + 1, ScanInScope(c, scope), before)
    ELSE IF c \in Letters \/ c = "_"
      THEN ScanReads(source, IdentifierEnd(source, i), scope, before)
    ELSE IF c = "#"
      THEN LET end == IdentifierEnd(source, i + 1)
               identifier == Substr(source, i + 1, end - (i + 1))
           IN  IF identifier = W_define
                 THEN LET start == SkipSpaces(source, end)
                          nend  == IdentifierEnd(source, start)
                          stop  == PreprocessorEnd(source, nend - 1, FALSE)
                      IN  (IF start >= Len(source) THEN {start} ELSE {})
                            \cup ScanReads(source, stop + 1, scope, before)
                 ELSE ScanReads(source, PreprocessorEnd(source, end - 1, FALSE) + 1,
                                scope, before)
    ELSE IF c = "{"
      THEN ScanReads(source, i + 1, scope + 1, before)
    ELSE IF c = "="
      THEN ScanReads(source, AfterAssignment(source, i) + 1, scope, before)
    ELSE IF c = "/"
      THEN IF i + 1 >= Len(source)
             THEN ScanReads(source, i + 1, scope, before)
           ELSE IF source[i + 2] = "/"
             THEN ScanReads(source, FindChar(source, i, "\n") + 1, scope, before)
           ELSE IF source[i + 2] = "*"
             THEN (IF i = 0 THEN {-1} ELSE {})
                    \cup ScanReads(source, BlockCommentEnd(source, i, before) + 1,
                                   scope, before)
           ELSE ScanReads(source, i + 1, scope, before)
    ELSE ScanReads(source, i + 1, scope, before)

\* the pieces the scanned sources are put together from
ScFragments ==
  {<<"#", "d", "e", "f", "i", "n", "e">>, <<"#", "d", "e", "f", "i", "n", "e", " ", "x", " ", "1">> \o <<"\n">>, <<" ">>, <<"/", "*", "x", "*", "/">>,
   <<"(">>, <<"=", "1", ";">>, <<"i", "n", "t", " ", "y">>, <<"{", "y", "}">>, <<"\n">>}
\* the number of pieces of a scanned source
MaxFragments == 3

RECURSIVE Joined(_)
Joined(pieces) ==
  IF pieces = <<>> THEN <<>> ELSE Head(pieces) \o Joined(Tail(pieces))

ScSources == {Joined(pieces) : pieces \in SeqsUpTo(ScFragments, MaxFragments)}

ScInit ==
  /\ sc_pc = "given"
  /\ sc_source \in ScSources
  /\ sc_before \in BytesBefore
  /\ sc_result = <<>>

\* one call GlobalConflicts(source)
ScGlobalConflicts ==
  /\ sc_pc = "given"
  /\ \E global_result \in GlobalConflicts(sc_source, sc_before) :
       sc_result' = [conflicts |-> global_result,
                     outside |-> ScanReads(sc_source, 0, 0, sc_before)]
  /\ sc_pc' = "scanned"
  /\ UNCHANGED <<sc_source, sc_before>>

InitScan ==
  /\ MatIdle /\ ShIdle /\ MeshIdle /\ PlIdle /\ LdIdle /\ CmIdle /\ GlIdle
  /\ McIdle /\ ScInit
NextScan ==
  ScGlobalConflicts /\ UNCHANGED <<matVars, shVars, meshVars, plVars, ldVars, cmVars, glVars, mcVars>>
SpecScan == InitScan /\ [][NextScan]_vars

\* C25: GlobalConflicts reads only indices within [0, source.size()) and
\* every entry it reports is non-empty, for every source: one that ends
\* right after "#define", one that starts with "/*", one with '(' or '='
\* at depth 0 and no identifier before it
C25_ReadsInsideEntriesNonEmpty ==
  sc_pc = "scanned" =>
    /\ sc_result.outside = {}
    /\ \A k \in DOMAIN sc_result.conflicts : sc_result.conflicts[k] # <<>>
\* a scan of a conforming source with a define, a comment and an assignment
C25_Witness ==
  /\ sc_pc = "scanned"
  /\ sc_source = <<"i", "n", "t", " ", "y">> \o <<"=", "1", ";">> \o <<"#", "d", "e", "f", "i", "n", "e", " ", "x", " ", "1">> \o <<"\n">>
  /\ sc_result.conflicts \in {<<<<"x">>, <<"y">>>>, <<<<"y">>, <<"x">>>>}
  /\ sc_result.outside = {}
\* no read lies further out than the terminator or the index before 0, and
\* the latter is read only by a source that starts with a block comment
C25_ReadsNearby ==
  sc_pc = "scanned" =>
    /\ sc_result.outside \subseteq {-1, Len(sc_source)}
    /\ (-1 \in sc_result.outside) => Substr(sc_source, 0, 2) = <<"/", "*">>


---------------------------------------------------------------------------
(* The material buffer of the pipeline action.                             *)

\* the size the recompute of lines 411-416 gives m_material_data for a
\* list of properties
MemorySum(properties) ==
  SumSeq([k \in DOMAIN properties |-> GetMemorySize(properties[k])])

\* C26: over OnTextureCreate calls interleaved with reloads of the
\* material, a reload between GetData() and GetLastLoadedTime() included,
\* no WriteToMemory writes past the end of m_material_data, and the size
\* of the buffer is the sum of GetMemorySize over the properties of the
\* snapshot the call writes
C26_WritesWithinBuffer ==
  pl_last.op = "create" =>
    /\ pl_last.end # "overrun"
    /\ pl_last.end = "ok" =>
         Len(pl_self.m_material_data) = MemorySum(pl_last.snapshot)
\* an OnTextureCreate that wrote the properties of one load into its buffer
\* while the loader put another load in place
C26_Witness ==
  /\ pl_last.op = "create" /\ pl_last.end = "ok" /\ pl_last.recomputed
  /\ pl_last.snapshot # pl_materials[pl_self.m_pixel_material].data.properties
  /\ pl_self.material_write_time = pl_materials[pl_self.m_pixel_material].time
  /\ Len(pl_self.m_material_data) = 2 * MemorySize
\* a call that recomputes and completes leaves the buffer at the size of
\* the snapshot it wrote
C26_RecomputedBufferFits ==
  (pl_last.op = "create" /\ pl_last.end = "ok" /\ pl_last.recomputed) =>
    Len(pl_self.m_material_data) = MemorySum(pl_last.snapshot)


---------------------------------------------------------------------------
(* Reloads of the pixel shader asset.                                      *)

\* the lists m_texture_code_names can hold for the materials tried
PlCodeNames == {<<>>, <<"tint">>}
\* the texts the rewrite of OnDrawStarted can make of a shader source
TextsOf(shader_source) ==
  UNION { GeneratedShaderCode(shader_source, names, unit) :
          names \in PlCodeNames, unit \in TextureUnits }
\* the pixel shader asset was loaded after the pass cached its time, and
\* the material asset was not
ShaderAloneReloaded ==
  /\ pl_self.m_pixel_shader # ""
  /\ pl_shaders[pl_self.m_pixel_shader].time > pl_self.shader_write_time
  /\ pl_materials[pl_self.m_pixel_material].time = pl_self.material_write_time

\* C27: when the pixel shader asset has been reloaded and the material has
\* not, the OnDrawStarted that follows the next OnTextureCreate emits a
\* text generated from the source the shader asset holds now
C27_ReloadedShaderEmitted ==
  (pl_last.op = "draw" /\ pl_last.after = "create" /\ pl_out.written
     /\ ShaderAloneReloaded)
    => pl_out.custom_shader
         \in TextsOf(pl_shaders[pl_self.m_pixel_shader].data.m_shader_source)
\* a draw after an OnTextureCreate after a reload of the shader alone, which
\* gave the shader another source
C27_Witness ==
  /\ pl_last.op = "draw" /\ pl_last.after = "create" /\ pl_out.written
  /\ ShaderAloneReloaded
  /\ pl_shaders[pl_self.m_pixel_shader].data.m_shader_source = PlSourceB
  /\ pl_out.custom_shader \in TextsOf(PlSourceA) \cup TextsOf(PlSourceB)
\* as long as the shader asset has not been loaded again since the pass
\* cached its time, the text emitted is one made from its source
C27_UnreloadedShaderEmitted ==
  (pl_last.op = "draw" /\ pl_out.written
     /\ pl_shaders[pl_self.m_pixel_shader].time = pl_self.shader_write_time)
    => pl_out.custom_shader
         \in TextsOf(pl_shaders[pl_self.m_pixel_shader].data.m_shader_source)


---------------------------------------------------------------------------
(* The main texture of the pipeline action.                                *)

\* the property loop of the last OnTextureCreate, over the snapshot it read
PlLoop ==
  PropertyLoop(pl_last.snapshot, pl_shaders[pl_self.m_pixel_shader].data.m_properties, 0,
               [cursor |-> 0, buffer |-> pl_self.m_material_data, main |-> -1,
                shared |-> FALSE, game_assets |-> <<>>, end |-> "done"])
\* the last OnTextureCreate went on to read m_game_textures at
\* main_texture_offset (line 532)
PlReadsMainTexture ==
  /\ pl_last.op = "create"
  /\ pl_last.end \in {"ok", "out_of_range"}
  /\ PlLoop.main # -1
\* the asset LoadGameTexture gave for a texture property ("": none)
LoadedFor(property) ==
  IF ~HasValue(property) THEN ""
  ELSE IF property.m_value.k # "AssetID" THEN ""
  ELSE IF property.m_value.v = "" THEN ""
  ELSE IF TextureLibrary[property.m_value.v].asset THEN property.m_value.v
  ELSE ""

\* C28: where OnTextureCreate reads pass.m_game_textures at
\* main_texture_offset, the offset is an index the vector has and the
\* element there is the asset loaded for the main texture property,
\* whatever comes before the main texture in the property list and
\* whichever textures fail to load
C28_MainTextureIndexed ==
  PlReadsMainTexture =>
    /\ PlLoop.main < Len(PlLoop.game_assets)
    /\ PlLoop.game_assets[PlLoop.main + 1] = LoadedFor(pl_last.snapshot[PlLoop.main + 1])
\* an OnTextureCreate over a material whose first property is its main
\* texture, with an additional texture behind it
C28_Witness ==
  /\ PlReadsMainTexture
  /\ PlLoop.main = 0
  /\ Len(PlLoop.game_assets) = 1
  /\ Len(pl_last.snapshot) = 2
\* the claim holds where the main texture is the first property and its
\* asset loads
C28_LoadedAndFirst ==
  (PlReadsMainTexture /\ PlLoop.main = 0
     /\ LoadedFor(pl_last.snapshot[1]) # "")
    => /\ PlLoop.main < Len(PlLoop.game_assets)
       /\ PlLoop.game_assets[1] = LoadedFor(pl_last.snapshot[1])


---------------------------------------------------------------------------
(* FromDolphinMesh over streams that stop early.                           *)

\* whether a memcpy of `width` bytes from raw_data.data() + offset stays
\* inside the span
Fits(raw_data, offset, width) == offset + width <= Len(raw_data)

\* one pass of the loop of FromDolphinMesh, memcpy by memcpy: the offset
\* behind the chunk, or -1 when one of its reads leaves the span.  What is
\* read before that read is what the stream holds.
ChunkEnd(raw_data, offset) ==
  IF ~Fits(raw_data, offset, 2 * SizeofU32) THEN -1
  ELSE LET num_vertices  == ReadUnsigned(raw_data, offset, SizeofU32)
           vertex_stride == ReadUnsigned(raw_data, offset + SizeofU32, SizeofU32)
           o1 == offset + 2 * SizeofU32
           o2 == o1 + num_vertices * vertex_stride
       IN
    IF ~Fits(raw_data, o1, num_vertices * vertex_stride) THEN -1
    ELSE IF ~Fits(raw_data, o2, SizeofU32) THEN -1
    ELSE LET num_indices == ReadUnsigned(raw_data, o2, SizeofU32)
             o3 == o2 + SizeofU32
             o4 == o3 + num_indices * SizeofU16
             o8 == o4 + DeclBytes + SizeofPrimitiveType + SizeofU32
                      + TransformFloats * SizeofFloat
         IN
      IF ~Fits(raw_data, o3, num_indices * SizeofU16) THEN -1
      ELSE IF ~Fits(raw_data, o4, (o8 - o4) + SizeofSizeT) THEN -1
      ELSE LET material_name_size == ReadUnsigned(raw_data, o8, SizeofSizeT)
               o9 == o8 + SizeofSizeT
           IN  IF ~Fits(raw_data, o9, material_name_size) THEN -1
               ELSE o9 + material_name_size

\* whether the loop of FromDolphinMesh from `offset` on, with `remaining`
\* chunks to go, reads inside the span only
RECURSIVE ChunksWithin(_, _, _)
ChunksWithin(raw_data, offset, remaining) ==
  IF remaining = 0 THEN TRUE
  ELSE With(ChunkEnd(raw_data, offset),
            LAMBDA end : end # -1 /\ ChunksWithin(raw_data, end, remaining - 1))

\* whether FromDolphinMesh(raw_data, data) reads inside the span only
ReadsWithin(raw_data) ==
  /\ Fits(raw_data, 0, SizeofSizeT)
  /\ ChunksWithin(raw_data, SizeofSizeT, ReadUnsigned(raw_data, 0, SizeofSizeT))

\* the lengths a stream of `size` bytes is cut to
CutsOf(size) ==
  {n \in {0, SizeofSizeT - 1, SizeofSizeT, SizeofSizeT + SizeofU32,
          SizeofSizeT + 2 * SizeofU32 + 1, size - 1, size} : n >= 0 /\ n <= size}

\* a file that holds the first bytes of a saved mesh
CutInit ==
  /\ mesh_pc = "cut"
  /\ \E chunks \in SeqsUpTo(MeshChunks, MaxChunks) :
       /\ mesh_src = MeshData(chunks, EmptyMapping)
       /\ \E n \in CutsOf(Len(ToDolphinMesh(mesh_src))) :
            mesh_bytes = SubSeq(ToDolphinMesh(mesh_src), 1, n)
  /\ mesh_json = EmptyObj
  /\ mesh_out = FreshMeshData

\* MeshData::FromDolphinMesh(raw_data, data) on such a file.  The function
\* has one return statement, `return true` (line 541); a read outside the
\* span leaves to the build whether that statement is reached.
CutFromDolphinMesh ==
  /\ mesh_pc = "cut"
  /\ \E within \in {ReadsWithin(mesh_bytes)} :
       \E returned \in IF within THEN {"true"} ELSE {"true", "none"} :
         mesh_out' = [within |-> within, returned |-> returned]
  /\ mesh_pc' = "cut read"
  /\ UNCHANGED <<mesh_src, mesh_bytes, mesh_json>>

InitCut == MatIdle /\ ShIdle /\ CutInit /\ RestIdle
NextCut == CutFromDolphinMesh /\ UNCHANGED <<matVars, shVars, restVars>>
SpecCut == InitCut /\ [][NextCut]_vars

\* the file holds fewer bytes than its counts announce
Truncated == mesh_bytes # ToDolphinMesh(mesh_src)

\* C29: FromDolphinMesh reads no byte at or beyond raw_data.size(), and
\* for a stream that is truncated, or whose counts exceed the bytes that
\* remain, it returns failure
C29_TruncationFails ==
  mesh_pc = "cut read" =>
    /\ mesh_out.within
    /\ Truncated => mesh_out.returned = "false"
\* a file cut inside the vertex data of its first chunk has been read
C29_Witness ==
  /\ mesh_pc = "cut read"
  /\ Len(mesh_src.m_mesh_chunks) = 1
  /\ mesh_src.m_mesh_chunks[1].num_vertices = 2
  /\ Len(mesh_bytes) = SizeofSizeT + 2 * SizeofU32 + 1
  /\ Truncated
\* a file that holds all the bytes of a saved mesh is read inside the span,
\* and every cut file is not
C29_WholeStreamWithin ==
  mesh_pc = "cut read" =>
    /\ mesh_out.within <=> ~Truncated
    /\ ~Truncated => mesh_out.returned = "true"


---------------------------------------------------------------------------
(* The chunk the mesh action selects.                                      *)

\* the last call of the mesh action was an OnDrawStarted of a draw
\* sequence that went on to select a chunk (lines 125-126)
CmSelects ==
  /\ cm_last.op \in {"draw", "crashed"}
  /\ cm_last.in_sequence
  /\ cm_last.end = "out_of_range" \/ cm_out.written

\* C30: in every OnDrawStarted of the mesh action that reaches the chunk
\* selection, *current_mesh_index is less than m_render_chunks.size() and
\* than m_mesh_chunks.size(), for a mesh without chunks and across a reload
\* between two calls of one draw sequence as well; more_data is set to
\* true exactly when chunks remain after the increment
C30_IndexWithinChunks ==
  CmSelects =>
    /\ cm_last.end # "out_of_range"
    /\ cm_out.more_data
         = (cm_out.current_mesh_index
              < Len(cm_meshes[cm_self.m_asset].data.m_mesh_chunks))
\* the second call of a draw sequence over a mesh of two chunks, after a
\* reload of the mesh
C30_Witness ==
  /\ CmSelects
  /\ cm_last.index = 1
  /\ cm_last.recomputed
  /\ cm_last.causes = {"newer"}
\* a further call of a draw sequence that finds nothing to rebuild selects
\* a chunk the vectors have, and more_data is as the claim says
C30_SteadySequence ==
  (CmSelects /\ cm_last.index > 0 /\ ~cm_last.recomputed) =>
    /\ cm_last.end # "out_of_range"
    /\ cm_out.more_data
         = (cm_out.current_mesh_index
              < Len(cm_meshes[cm_self.m_asset].data.m_mesh_chunks))

===========================================================================
